---- MODULE Spec2Model ----
(***************************************************************************)
(* A model of the OAuth session controller LOAuth (src/src/LOAuth.ts,      *)
(* lines 1-318): the in-memory token, the persistent store, the browser    *)
(* location and the asynchronous activations of refreshAccessToken, one    *)
(* step per suspension point (await) of the code.                          *)
(*                                                                         *)
(* Time is in milliseconds, as Date.now() and Date.getTime() are; token    *)
(* lifetimes (expires_in) are in seconds, as the token endpoint gives them.*)
(***************************************************************************)
EXTENDS Integers, Sequences, FiniteSets, TLC

\* ------------------------------------------------------------- constants
\* Defaults of the controller (LOAuth.ts 6-14).
AUTH_TOKEN_INTERVAL == 30000
AUTH_REFRESH_WINDOW == 5
AUTH_STORAGE_KEY == "lo-app-tools-auth"
LO_QUERY_STRING_PARAMS == <<"account", "projectId", "cohortId">>

\* ---------------------------------------------------------------- bounds
\* The clock advances in steps of one default poll interval, MaxTicks times.
MaxTicks == 1
\* Top-level calls of the public operations made by the application.
MaxCalls == 3
\* Tokens the identity provider issues (exchange and refresh responses).
MaxTokens == 2

TimeStep == AUTH_TOKEN_INTERVAL

\* Token lifetimes in seconds the provider may answer with: one minute and six
\* minutes. One step of the clock later they are half a minute and five and a
\* half minutes away.
ExpiresInChoices == {60, 360}

\* ------------------------------------------------------------- optionals
\* null/undefined is the empty sequence, a present value a one-element one.
None == <<>>
Some(x) == <<x>>
IsSome(o) == o # <<>>
Get(o) == o[1]

\* The refreshWindow option of a call: absent, or a number of minutes.
RefreshWindowChoices == {None, Some(0)}

\* The application's callers ("app", and "app2" whose calls overlap the
\* first one's) and the callback of the recurring timer.
Tasks == {"app", "app2", "timer"}

VARIABLES
    ctorParams,   \* the options the application gave the constructor
    token,        \* this.token: None or Some(token)
    refreshInterval, \* this.refreshInterval: None or Some(timer handle)
    storage,      \* storage name -> key -> None or Some(stored record)
    clientOptions,\* this.clientOptions, as the constructor left it
    client,       \* this.client: the OAuth client the constructor created
    location,     \* window.location
    appState,     \* this.appState
    now,          \* Date.now()
    issued,       \* number of tokens the provider has issued
    ncalls,       \* top-level calls made so far
    stack,        \* task -> the frames of its nested refreshAccessToken calls
    call,         \* task -> what its current/last top-level call did
    signed,       \* outcome of the last sign()
    timers,       \* the window's interval timers, by handle 1, 2, ...
    nticks,       \* timer callbacks run so far
    thrown,       \* the error the last call of the constructor threw, if any
    cookie,       \* document.cookie: the hand-off cookie, if there is one
    api           \* the APIBasedAuth instance, its store and its current call

vars == <<ctorParams, token, refreshInterval, storage, clientOptions, client,
          location, appState, now, issued, ncalls, stack, call, signed,
          timers, nticks, thrown, cookie, api>>

\* ------------------------------------------------- URLs and application state
\* A query-parameter value is a plain string, or the base64 of the JSON of an
\* object (an ordered list of <<key, string>> pairs), which is what atob and
\* JSON.parse can turn back into an object.
Str(s) == [enc |-> FALSE, str |-> s, obj |-> <<>>]
B64(o) == [enc |-> TRUE, str |-> "", obj |-> o]

\* URLSearchParams.get: the first value under the key, or null.
RECURSIVE SearchGet(_, _)
SearchGet(search, k) ==
    IF search = <<>> THEN None
    ELSE IF Head(search)[1] = k THEN Some(Head(search)[2])
    ELSE SearchGet(Tail(search), k)

\* JavaScript truthiness of what URLSearchParams.get returned.
Truthy(o) == IsSome(o) /\ (Get(o).enc \/ Get(o).str # "")

\* Property read and write of an object whose keys keep insertion order.
RECURSIVE ObjGet(_, _)
ObjGet(o, k) ==
    IF o = <<>> THEN None
    ELSE IF Head(o)[1] = k THEN Some(Head(o)[2])
    ELSE ObjGet(Tail(o), k)

ObjSet(o, k, v) ==
    IF IsSome(ObjGet(o, k))
    THEN [i \in 1..Len(o) |-> IF o[i][1] = k THEN <<k, v>> ELSE o[i]]
    ELSE Append(o, <<k, v>>)

RECURSIVE ObjAssign(_, _)
ObjAssign(target, src) ==
    IF src = <<>> THEN target
    ELSE ObjAssign(ObjSet(target, Head(src)[1], Head(src)[2]), Tail(src))

RECURSIVE FromQueryParams(_, _, _)
FromQueryParams(params, search, acc) ==
    IF params = <<>> THEN acc
    ELSE LET v == SearchGet(search, Head(params))
         IN FromQueryParams(Tail(params), search,
                IF Truthy(v) THEN ObjSet(acc, Head(params), Get(v).str) ELSE acc)

\* atob or JSON.parse throws on the state parameter of the URL (the catch of
\* _decodeAppState logs the error).
decodeThrows(loc) ==
    LET queryState == SearchGet(loc.search, "state")
    IN Truthy(queryState) /\ ~Get(queryState).enc

\* Faulty variant of _decodeAppState: a state parameter that cannot be decoded
\* leaves the application state empty.
decodeAppState_EmptyOnError(loc) ==
    LET fromQuery == FromQueryParams(LO_QUERY_STRING_PARAMS, loc.search, <<>>)
        withPath == IF loc.pathname # "" /\ loc.pathname # "/"
                    THEN ObjSet(fromQuery, "pathname", loc.pathname)
                    ELSE fromQuery
        queryState == SearchGet(loc.search, "state")
    IN IF Truthy(queryState) /\ Get(queryState).enc
       THEN ObjAssign(withPath, Get(queryState).obj)
       ELSE IF Truthy(queryState) THEN <<>> ELSE withPath

\* _decodeAppState: the value it leaves in this.appState.
decodeAppState(loc) ==
    LET fromQuery == FromQueryParams(LO_QUERY_STRING_PARAMS, loc.search, <<>>)
        withPath == IF loc.pathname # "" /\ loc.pathname # "/"
                    THEN ObjSet(fromQuery, "pathname", loc.pathname)
                    ELSE fromQuery
        queryState == SearchGet(loc.search, "state")
    IN IF Truthy(queryState) /\ Get(queryState).enc
       THEN ObjAssign(withPath, Get(queryState).obj)
       ELSE withPath   \* no state, or atob/JSON.parse threw and was caught

RECURSIVE AppQuery(_, _)
AppQuery(params, state) ==
    IF params = <<>> THEN <<>>
    ELSE LET v == ObjGet(state, Head(params))
             rest == AppQuery(Tail(params), state)
         IN IF IsSome(v) /\ Get(v) # ""
            THEN <<(<<Head(params), Str(Get(v))>>)>> \o rest
            ELSE rest

\* Faulty variant of _getAppUri: the query string of the page is kept.
getAppUri_KeepsQuery(loc, state) ==
    LET pathname == ObjGet(state, "pathname")
    IN [protocol |-> loc.protocol, hostname |-> loc.hostname, port |-> loc.port,
        pathname |-> IF IsSome(pathname) THEN Get(pathname) ELSE "",
        search |-> loc.search]

\* _getAppUri, given the state _decodeAppState left.
getAppUri(loc, state) ==
    LET pathname == ObjGet(state, "pathname")
    IN [protocol |-> loc.protocol, hostname |-> loc.hostname, port |-> loc.port,
        pathname |-> IF IsSome(pathname) THEN Get(pathname) ELSE "",
        search |-> AppQuery(LO_QUERY_STRING_PARAMS, state)]

\* Faulty variant of _getStateForClientOAuth: the values from the URL
\* override the caller's.
getStateForClientOAuth_UrlWins(loc, options) ==
    LET state == ObjAssign(options.appState, decodeAppState(loc))
    IN IF Len(state) = 0 THEN None ELSE Some(B64(state))

\* _getStateForClientOAuth: the state handed to the OAuth client.
getStateForClientOAuth(loc, options) ==
    LET state == ObjAssign(decodeAppState(loc), options.appState)
    IN IF Len(state) = 0 THEN None ELSE Some(B64(state))

\* client.code.getUri(): the identity provider's authorization URI.
AuthorizationUri ==
    [protocol |-> "https:", hostname |-> "idp", port |-> "",
     pathname |-> "/authorize",
     search |-> << <<"client_id", Str(clientOptions.clientId)>>,
                   <<"redirect_uri", Str(clientOptions.redirectUri)>>,
                   <<"response_type", Str("code")>> >>
                \o (IF IsSome(client.state)
                    THEN << <<"state", Get(client.state)>> >> ELSE <<>>)]

\* The pages the application can be loaded on.
AppOrigin(port) == [protocol |-> "https:", hostname |-> "app", port |-> port]
Url(origin, pathname, search) ==
    [protocol |-> origin.protocol, hostname |-> origin.hostname,
     port |-> origin.port, pathname |-> pathname, search |-> search]
InitialLocations ==
    { \* a first load of the root page
      Url(AppOrigin(""), "/", <<>>),
      \* back from the identity provider, with the state sent there
      Url(AppOrigin(""), "/",
          << <<"client_id", Str("cid")>>, <<"code", Str("abc")>>,
             <<"state", B64(<< <<"account", "acme">>, <<"pathname", "/deep">> >>)>> >>),
      \* back on a callback path, with a state that cannot be decoded
      Url(AppOrigin("3000"), "/callback",
          << <<"code", Str("abc")>>, <<"projectId", Str("p1")>>,
             <<"tab", Str("x")>>, <<"state", Str("%%%")>> >>) }

\* ----------------------------------------------------- tokens and the store
StorageNames == {"localStorage", "custom"}
StorageKeys == {AUTH_STORAGE_KEY, "my-key"}

\* The options the application constructs the controller with: with the
\* defaults, or with its own storage and storage key.
DefaultConfig ==
    [clientId |-> Some("cid"), authorizationUri |-> Some("https://idp/authorize"),
     accessTokenUri |-> Some("https://idp/token"),
     redirectUri |-> Some("https://app/"),
     logoutUri |-> Some("https://idp/logout"),
     logoutRedirectUri |-> Some("https://app/bye"), scopes |-> Some("openid"),
     storageKey |-> None, storage |-> None, appState |-> <<>>]
CtorOptions ==
    { DefaultConfig,
      [DefaultConfig EXCEPT !.storageKey = Some("my-key"), !.storage = Some("custom")] }

\* Faulty variant of the constructor: the storageKey and storage options are
\* not looked at.
Construct_DefaultsOnly(options) ==
    [clientId |-> Get(options.clientId),
     accessTokenUri |-> Get(options.accessTokenUri),
     redirectUri |-> Get(options.redirectUri),
     logoutUri |-> Get(options.logoutUri),
     logoutRedirectUri |-> Get(options.logoutRedirectUri),
     storageKey |-> AUTH_STORAGE_KEY, storage |-> "localStorage"]

\* The constructor: this.clientOptions with the storage defaults applied.
Construct(options) ==
    [clientId |-> Get(options.clientId),
     accessTokenUri |-> Get(options.accessTokenUri),
     redirectUri |-> Get(options.redirectUri),
     logoutUri |-> Get(options.logoutUri),
     logoutRedirectUri |-> Get(options.logoutRedirectUri),
     storageKey |-> IF IsSome(options.storageKey)
                    THEN Get(options.storageKey) ELSE AUTH_STORAGE_KEY,
     storage |-> IF IsSome(options.storage)
                 THEN Get(options.storage) ELSE "localStorage"]

\* The fields of a token response (and of token.data).
TokenData(id, refresh, expiresIn) ==
    [access_token |-> id, refresh_token |-> refresh, expires_in |-> expiresIn]

\* new Date(ms): a Date is the instant it holds.
Date(ms) == ms

\* client.createToken(data) at instant t: client-oauth2 sets the expiry from
\* the relative expires_in.
createToken(data, t) ==
    [accessToken |-> data.access_token, refreshToken |-> data.refresh_token,
     expires |-> t + data.expires_in * 1000, data |-> data]

\* token.expiresIn(date): the expiry becomes that instant.
expiresIn(tok, date) == [tok EXCEPT !.expires = date]

\* The record _storeTokenData serializes: token.data and the absolute expiry.
StoredRecord(tok) ==
    [access_token |-> tok.data.access_token,
     refresh_token |-> tok.data.refresh_token,
     expires_in |-> tok.data.expires_in, expires |-> tok.expires]

\* The token fields of a stored record, as createToken reads them.
DataOf(rec) == TokenData(rec.access_token, rec.refresh_token, rec.expires_in)

\* Faulty variant of _isTokenExpiring: the refreshWindow option is not looked
\* at, the default window is always used.
isTokenExpiring_IgnoresOption(tok, options, t) ==
    ((tok.expires - t) \div 1000) \div 60 <= AUTH_REFRESH_WINDOW

\* _isTokenExpiring(options) at instant t.
isTokenExpiring(tok, options, t) ==
    LET refreshWindow == IF IsSome(options.refreshWindow)
                         THEN Get(options.refreshWindow)
                         ELSE AUTH_REFRESH_WINDOW
    IN ((tok.expires - t) \div 1000) \div 60 <= refreshWindow

\* Object.assign({}, this.clientOptions, options): the fields a call reads.
MergeOptions(options) ==
    [expiringRefresh |-> options.expiringRefresh,
     refreshWindow |-> options.refreshWindow]

\* The options of a call the application can make.
CallOptions ==
    [expiringRefresh : BOOLEAN, refreshWindow : RefreshWindowChoices]

\* What a previous page load may have left in the store: nothing, or the
\* record of a token (number 0) with one of the lifetimes.
PreviousRecords ==
    {None} \cup
    { Some(StoredRecord(createToken(TokenData(0, Some(0), e), 0))) :
        e \in ExpiresInChoices }

\* ------------------------------------------------------- the machine state
\* A handler runs from one suspension point to the next without interruption.
\* Its effect is computed on a record of the variables it can change, and
\* committed at the end.
Cur ==
    [token |-> token, storage |-> storage, location |-> location,
     appState |-> appState, stack |-> stack, call |-> call,
     refreshInterval |-> refreshInterval, timers |-> timers,
     cookie |-> cookie]

Commit(S) ==
    /\ token' = S.token
    /\ storage' = S.storage
    /\ location' = S.location
    /\ appState' = S.appState
    /\ stack' = S.stack
    /\ call' = S.call
    /\ refreshInterval' = S.refreshInterval
    /\ timers' = S.timers
    /\ cookie' = S.cookie

\* What a top-level call did, for the properties: its options, the state it
\* found (for a timer callback also the instant it ran at and the first effect
\* of each earlier callback), the effects it had in order, what each run of the catch block found
\* (the stored value, the instant, the options in force), the requests it
\* sent, the token responses it got, the URLs it put in the history, the
\* request description given to sign, how deep it nested, how it ended.
NoOptions == [expiringRefresh |-> FALSE, refreshWindow |-> None]
NoCall ==
    [n |-> 0, op |-> "none", status |-> "none", options |-> NoOptions,
     entryToken |-> None, entryStored |-> None, log |-> <<>>, catches |-> <<>>,
     exchanges |-> <<>>, fetches |-> <<>>, responses |-> <<>>,
     replaced |-> <<>>, request |-> [method |-> "", url |-> ""], depth |-> 0,
     interval |-> None, at |-> 0, previous |-> <<>>, href |-> <<>>]

Log(S, t, event) == [S EXCEPT !.call[t].log = Append(@, event)]

Top(S, t) == S.stack[t][Len(S.stack[t])]
SetPc(S, t, pc) == [S EXCEPT !.stack[t][Len(S.stack[t])].pc = pc]

\* The cell of the configured storage under the configured key.
Stored(S) == S.storage[clientOptions.storage][clientOptions.storageKey]

\* Faulty variant: a record that is in the store already is not overwritten.
storeTokenData_KeepsExisting(S, t) ==
    Log([S EXCEPT !.storage[clientOptions.storage][clientOptions.storageKey] =
                      IF IsSome(@) THEN @ ELSE Some(StoredRecord(Get(S.token)))],
        t, "setItem")

\* _storeTokenData(this.token)
storeTokenData(S, t) ==
    Log([S EXCEPT !.storage[clientOptions.storage][clientOptions.storageKey] =
                      Some(StoredRecord(Get(S.token)))],
        t, "setItem")

\* _getTokenDataFromStorage()
getTokenDataFromStorage(S) == Stored(S)

\* Faulty variant: a store that ignores removeItem.
removeTokenDataFromStorage_Ignored(S, t) == Log(S, t, "removeItem")

\* _removeTokenDataFromStorage()
removeTokenDataFromStorage(S, t) ==
    Log([S EXCEPT !.storage[clientOptions.storage][clientOptions.storageKey] = None],
        t, "removeItem")

\* window.history.replaceState({}, title, this._getAppUri())
replaceState(S, t) ==
    LET state == decodeAppState(S.location)
        uri == getAppUri(S.location, state)
        S1 == IF decodeThrows(S.location) THEN Log(S, t, "warn:state") ELSE S
    IN Log([S1 EXCEPT !.appState = state, !.location = uri,
                      !.call[t].replaced = Append(@, uri)],
           t, "replaceState")

\* Faulty variant of the redirect: the failure is logged, the location stays.
Redirect_WarnOnly(S, t) == Log(S, t, "warn")

\* window.location.href = this.client.code.getUri()
Redirect(S, t) == Log([S EXCEPT !.location = AuthorizationUri], t, "redirect")

\* The body of the refresh-token request (LOAuth.ts 168-179).
RefreshRequest(S) ==
    [uri |-> clientOptions.accessTokenUri, method |-> "POST",
     client_id |-> clientOptions.clientId, grant_type |-> "refresh_token",
     refresh_token |-> Get(S.token).refreshToken,
     redirect_uri |-> clientOptions.redirectUri]

\* --------------------------------------------------- the recurring timer
\* The interval option of startAutomaticTokenRefresh: absent, or a number of
\* milliseconds (here two default intervals).
IntervalChoices == {None, Some(2 * AUTH_TOKEN_INTERVAL)}

\* The options startAutomaticTokenRefresh is called with: none, or a refresh
\* window and an interval of its own.
StartOptions ==
    { [refreshWindow |-> None, interval |-> None] } \cup
    [refreshWindow : RefreshWindowChoices \ {None}, interval : IntervalChoices \ {None}]

\* window.setInterval(callback, ms): a new timer, first due ms from now. Its
\* handle is its place in the window's list, a positive number.
setInterval(S, t, window, ms) ==
    Log([S EXCEPT !.timers = Append(@, [window |-> window, interval |-> ms,
                                        due |-> now + ms, cleared |-> FALSE])],
        t, "setInterval")

\* window.clearInterval(handle)
clearInterval(S, t, handle) ==
    Log([S EXCEPT !.timers = [h \in DOMAIN @ |->
                                 IF h = handle THEN [@[h] EXCEPT !.cleared = TRUE]
                                 ELSE @[h]]],
        t, "clearInterval")

\* Faulty variant of the installation: a timer is installed whether or not
\* one is already.
installTimer_Always(S, t) ==
    LET interval == S.call[t].interval
        ms == IF IsSome(interval) /\ Get(interval) # 0
              THEN Get(interval) ELSE AUTH_TOKEN_INTERVAL
        S1 == setInterval(S, t, S.call[t].options.refreshWindow, ms)
    IN [S1 EXCEPT !.refreshInterval = Some(Len(S1.timers))]

\* startAutomaticTokenRefresh after its initial acquisition (LOAuth.ts
\* 229-240): a timer is installed unless this.refreshInterval holds one.
installTimer(S, t) ==
    LET interval == S.call[t].interval
        ms == IF IsSome(interval) /\ Get(interval) # 0
              THEN Get(interval) ELSE AUTH_TOKEN_INTERVAL
        S1 == setInterval(S, t, S.call[t].options.refreshWindow, ms)
    IN IF ~IsSome(S.refreshInterval)
       THEN [S1 EXCEPT !.refreshInterval = Some(Len(S1.timers))]
       ELSE S

\* Faulty variant of stopAutomaticTokenRefresh: the timer is left running.
stopAutomaticTokenRefresh_Forgets(S, t) == S

\* stopAutomaticTokenRefresh (LOAuth.ts 243-247)
stopAutomaticTokenRefresh(S, t) ==
    IF IsSome(S.refreshInterval)
    THEN clearInterval(S, t, Get(S.refreshInterval))
    ELSE S

\* Faulty variant of the timer callback's catch: the error is thrown on.
Settled_TickRethrows(S, t, result) ==
    IF S.call[t].op = "startAutomaticTokenRefresh" /\ result = "resolved"
    THEN [installTimer(S, t) EXCEPT !.call[t].status = "resolved"]
    ELSE [S EXCEPT !.call[t].status = result]

\* The last activation of refreshAccessToken of a top-level call has settled
\* with `result`: startAutomaticTokenRefresh goes on to install the timer
\* (LOAuth.ts 226-229), the timer callback catches and logs a rejection
\* (236-238), a call of refreshAccessToken itself settles the same way.
Settled(S, t, result) ==
    IF S.call[t].op = "startAutomaticTokenRefresh" /\ result = "resolved"
    THEN [installTimer(S, t) EXCEPT !.call[t].status = "resolved"]
    ELSE IF S.call[t].op = "tick" /\ result = "rejected"
    THEN [Log(S, t, "warn") EXCEPT !.call[t].status = "resolved"]
    ELSE [S EXCEPT !.call[t].status = result]

\* ------------------------------------------------------ refreshAccessToken
\* A frame is one activation of refreshAccessToken: where it is suspended and
\* its merged options. pc is "getToken" (awaiting the code exchange, line
\* 153), "fetch" (awaiting the refresh request, 168), "json" (awaiting
\* response.json(), 183), "await199" and "await214" (awaiting the nested call
\* of that line).
RECURSIVE Enter(_, _, _), Return(_, _, _), Catch(_, _)

\* Faulty variant of the call: a held token is refreshed whether or not
\* expiringRefresh was asked for.
Enter_IgnoresFlag(S, t, options) ==
    LET opts == MergeOptions(options)
        frame == [pc |-> "start", options |-> opts]
        S1 == [S EXCEPT !.stack[t] = Append(@, frame),
                        !.call[t].depth =
                            IF Len(S.stack[t]) + 1 > @ THEN Len(S.stack[t]) + 1 ELSE @]
    IN IF ~IsSome(S1.token)
       THEN SetPc(Log([S1 EXCEPT !.call[t].exchanges = Append(@, S1.location)],
                      t, "getToken"),
                  t, "getToken")
       ELSE SetPc(Log([S1 EXCEPT !.call[t].fetches = Append(@, RefreshRequest(S1))],
                      t, "fetch"),
                  t, "fetch")

\* The call of refreshAccessToken(options) up to its first suspension point
\* (LOAuth.ts 148-179).
Enter(S, t, options) ==
    LET opts == MergeOptions(options)
        frame == [pc |-> "start", options |-> opts]
        S1 == [S EXCEPT !.stack[t] = Append(@, frame),
                        !.call[t].depth =
                            IF Len(S.stack[t]) + 1 > @ THEN Len(S.stack[t]) + 1 ELSE @]
    IN IF ~IsSome(S1.token)
       THEN SetPc(Log([S1 EXCEPT !.call[t].exchanges = Append(@, S1.location)],
                      t, "getToken"),
                  t, "getToken")
       ELSE IF opts.expiringRefresh
       THEN SetPc(Log([S1 EXCEPT !.call[t].fetches = Append(@, RefreshRequest(S1))],
                      t, "fetch"),
                  t, "fetch")
       ELSE Return(S1, t, "resolved")

\* The top activation of task t settles with `result`; the activation that
\* awaits it, if any, goes on: a rejection awaited inside the try block (line
\* 199) is caught there, one awaited inside the catch block (line 214)
\* rejects the awaiting activation too.
Return(S, t, result) ==
    LET S1 == [S EXCEPT !.stack[t] = SubSeq(@, 1, Len(@) - 1)]
    IN IF S1.stack[t] = <<>>
       THEN Settled(S1, t, result)
       ELSE IF result = "rejected" /\ Top(S1, t).pc = "await199"
       THEN Catch(S1, t)
       ELSE Return(S1, t, result)

\* Faulty variant of the catch block: a stored token is adopted whatever its
\* expiry.
Catch_AdoptsAny(S, t) ==
    LET tokenFromStorage == getTokenDataFromStorage(S)
        S0 == Log([S EXCEPT !.call[t].catches =
                           Append(@, [stored |-> tokenFromStorage, at |-> now,
                                      options |-> Top(S, t).options])],
                  t, "getItem")
    IN IF IsSome(tokenFromStorage)
       THEN LET rec == Get(tokenFromStorage)
                tok == expiresIn(createToken(DataOf(rec), now), Date(rec.expires))
            IN Return(Log([S0 EXCEPT !.token = Some(tok)], t, "createToken"),
                      t, "resolved")
       ELSE Return(Redirect(S0, t), t, "resolved")

\* Faulty variant of the catch block: with nothing in the store the error is
\* thrown on to the caller.
Catch_Rethrows(S, t) ==
    LET opts == Top(S, t).options
        tokenFromStorage == getTokenDataFromStorage(S)
        S0 == Log([S EXCEPT !.call[t].catches =
                           Append(@, [stored |-> tokenFromStorage, at |-> now,
                                      options |-> opts])],
                  t, "getItem")
    IN IF IsSome(tokenFromStorage)
       THEN LET rec == Get(tokenFromStorage)
                tok == expiresIn(createToken(DataOf(rec), now), Date(rec.expires))
                S1 == Log([S0 EXCEPT !.token = Some(tok)], t, "createToken")
            IN IF isTokenExpiring(tok, opts, now)
               THEN Enter(SetPc(removeTokenDataFromStorage(S1, t), t, "await214"),
                          t, [expiringRefresh |-> TRUE, refreshWindow |-> None])
               ELSE Return(S1, t, "resolved")
       ELSE Return(S0, t, "rejected")

\* Faulty variant of the catch block: the restored token keeps the expiry
\* createToken computed from expires_in.
Catch_RecomputesExpiry(S, t) ==
    LET opts == Top(S, t).options
        tokenFromStorage == getTokenDataFromStorage(S)
        S0 == Log([S EXCEPT !.call[t].catches =
                           Append(@, [stored |-> tokenFromStorage, at |-> now,
                                      options |-> opts])],
                  t, "getItem")
    IN IF IsSome(tokenFromStorage)
       THEN LET rec == Get(tokenFromStorage)
                tok == createToken(DataOf(rec), now)
                S1 == Log([S0 EXCEPT !.token = Some(tok)], t, "createToken")
            IN IF isTokenExpiring(tok, opts, now)
               THEN Enter(SetPc(removeTokenDataFromStorage(S1, t), t, "await214"),
                          t, [expiringRefresh |-> TRUE, refreshWindow |-> None])
               ELSE Return(S1, t, "resolved")
       ELSE Return(Redirect(S0, t), t, "resolved")

\* The catch block (LOAuth.ts 202-220) of the top activation of task t.
Catch(S, t) ==
    LET opts == Top(S, t).options
        tokenFromStorage == getTokenDataFromStorage(S)
        S0 == Log([S EXCEPT !.call[t].catches =
                           Append(@, [stored |-> tokenFromStorage, at |-> now,
                                      options |-> opts])],
                  t, "getItem")
    IN IF IsSome(tokenFromStorage)
       THEN LET rec == Get(tokenFromStorage)
                tok == expiresIn(createToken(DataOf(rec), now), Date(rec.expires))
                S1 == Log([S0 EXCEPT !.token = Some(tok)], t, "createToken")
            IN IF isTokenExpiring(tok, opts, now)
               THEN Enter(SetPc(removeTokenDataFromStorage(S1, t), t, "await214"),
                          t, [expiringRefresh |-> TRUE, refreshWindow |-> None])
               ELSE Return(S1, t, "resolved")
       ELSE Return(Redirect(S0, t), t, "resolved")

\* The code exchange answered with a token (LOAuth.ts 153-165).
ExchangeSucceeded(S, t, data) ==
    LET S1 == Log([S EXCEPT !.token = Some(createToken(data, now)),
                            !.call[t].responses = Append(@, data)],
                  t, "getToken:ok")
    IN Return(replaceState(storeTokenData(S1, t), t), t, "resolved")

\* Faulty variant of the non-OK branch: the record is left in the store.
RefreshNotOk_KeepsStore(S, t) ==
    LET S1 == Log([S EXCEPT !.token = None], t, "fetch:notok")
    IN Enter(SetPc(S1, t, "await199"), t, Top(S, t).options)

\* The refresh request answered with a non-OK response (LOAuth.ts 194-199).
RefreshNotOk(S, t) ==
    LET S1 == Log([S EXCEPT !.token = None], t, "fetch:notok")
    IN Enter(SetPc(removeTokenDataFromStorage(S1, t), t, "await199"),
             t, Top(S, t).options)

\* Faulty variant of the OK branch: the new token is not written to the store.
RefreshSucceeded_NotStored(S, t, responseJson) ==
    LET S0 == Log([S EXCEPT !.call[t].responses = Append(@, responseJson)],
                  t, "json:ok")
    IN IF ~IsSome(S.token)
       THEN Catch(Log(S0, t, "typeerror"), t)
       ELSE LET data == [responseJson EXCEPT !.refresh_token =
                             IF IsSome(responseJson.refresh_token)
                             THEN responseJson.refresh_token
                             ELSE Get(S.token).refreshToken]
                S1 == Log([S0 EXCEPT !.token = Some(createToken(data, now))],
                          t, "createToken")
            IN Return(S1, t, "resolved")

\* Faulty variant of the OK branch: the token is built from the response
\* alone.
RefreshSucceeded_ResponseAlone(S, t, responseJson) ==
    LET S0 == Log([S EXCEPT !.call[t].responses = Append(@, responseJson)],
                  t, "json:ok")
    IN IF ~IsSome(S.token)
       THEN Catch(Log(S0, t, "typeerror"), t)
       ELSE LET S1 == Log([S0 EXCEPT !.token = Some(createToken(responseJson, now))],
                          t, "createToken")
            IN Return(storeTokenData(S1, t), t, "resolved")

\* response.json() of an OK response gave responseJson (LOAuth.ts 183-193).
\* Reading this.token.refreshToken throws when no token is held any more.
RefreshSucceeded(S, t, responseJson) ==
    LET S0 == Log([S EXCEPT !.call[t].responses = Append(@, responseJson)],
                  t, "json:ok")
    IN IF ~IsSome(S.token)
       THEN Catch(Log(S0, t, "typeerror"), t)
       ELSE LET data == [responseJson EXCEPT !.refresh_token =
                             IF IsSome(responseJson.refresh_token)
                             THEN responseJson.refresh_token
                             ELSE Get(S.token).refreshToken]
                S1 == Log([S0 EXCEPT !.token = Some(createToken(data, now))],
                          t, "createToken")
            IN Return(storeTokenData(S1, t), t, "resolved")

\* ------------------------------------- the timer callback, logout, reads
\* Faulty variant of the timer callback: the token is refreshed on every tick.
timerCallback_AlwaysRefreshes(S, t, h) ==
    IF ~IsSome(S.token)
    THEN Settled(Log(S, t, "typeerror"), t, "rejected")
    ELSE Enter(Log(S, t, "expiring"), t,
               [expiringRefresh |-> TRUE, refreshWindow |-> None])

\* Faulty variant of the timer callback: a tick does nothing while another
\* refreshAccessToken is awaiting an answer.
timerCallback_Gated(S, t, h) ==
    IF ~IsSome(S.token)
    THEN Settled(Log(S, t, "typeerror"), t, "rejected")
    ELSE IF /\ isTokenExpiring(Get(S.token), [refreshWindow |-> S.timers[h].window], now)
            /\ \A u \in Tasks \ {t} : S.stack[u] = <<>>
    THEN Enter(Log(S, t, "expiring"), t,
               [expiringRefresh |-> TRUE, refreshWindow |-> None])
    ELSE Settled(Log(S, t, "fresh"), t, "resolved")

\* The callback of timer h (LOAuth.ts 231-239). _isTokenExpiring reads
\* this.token.expires, which throws when no token is held; the refresh is
\* awaited inside the callback's try block.
timerCallback(S, t, h) ==
    IF ~IsSome(S.token)
    THEN Settled(Log(S, t, "typeerror"), t, "rejected")
    ELSE IF isTokenExpiring(Get(S.token), [refreshWindow |-> S.timers[h].window], now)
    THEN Enter(Log(S, t, "expiring"), t,
               [expiringRefresh |-> TRUE, refreshWindow |-> None])
    ELSE Settled(Log(S, t, "fresh"), t, "resolved")

\* A logout URI with a query string of its own.
LogoutUriWithQuery == "https://idp/logout?logout=pending"

\* The text of a configured URI, cut at its "?".
UriText(uri) ==
    IF uri = LogoutUriWithQuery
    THEN <<"https://idp/logout", "?", "logout=pending">>
    ELSE <<uri>>

\* The text logout assigns to window.location.href (LOAuth.ts 265-269), in
\* pieces: `${logoutUri}?${qs}`; queryString.stringify writes the keys in
\* alphabetical order.
LogoutHref ==
    UriText(clientOptions.logoutUri)
    \o <<"?", "client_id=", clientOptions.clientId,
         "&", "logout_uri=", clientOptions.logoutRedirectUri>>

\* The URL the browser makes of that text: the query string starts at the
\* first "?", a later "?" is part of the value it stands in.
LogoutUri ==
    [protocol |-> "https:", hostname |-> "idp", port |-> "",
     pathname |-> "/logout",
     search |-> IF Len(UriText(clientOptions.logoutUri)) = 1
                THEN << <<"client_id", Str(clientOptions.clientId)>>,
                        <<"logout_uri", Str(clientOptions.logoutRedirectUri)>> >>
                ELSE << <<"logout", Str("pending?client_id=cid")>>,
                        <<"logout_uri", Str(clientOptions.logoutRedirectUri)>> >>]

\* logout up to its suspension point (LOAuth.ts 262-263).
logout(S, t) ==
    [stopAutomaticTokenRefresh(S, t) EXCEPT
        !.stack[t] = <<[pc |-> "await263", options |-> NoOptions]>>]

\* Faulty variant of logout: the record is left in the store.
logoutResume_KeepsRecord(S, t) ==
    Return(Log([S EXCEPT !.location = LogoutUri, !.call[t].href = LogoutHref],
               t, "navigate"),
           t, "resolved")

\* logout from its suspension point on (LOAuth.ts 264-269).
logoutResume(S, t) ==
    Return(Log([removeTokenDataFromStorage(S, t) EXCEPT
                    !.location = LogoutUri, !.call[t].href = LogoutHref],
               t, "navigate"),
           t, "resolved")

\* getAccessToken(): this.token && this.token.accessToken
getAccessToken(tok) == IF IsSome(tok) THEN Some(Get(tok).accessToken) ELSE None

\* ------------------------------------------------------------------- sign
\* Faulty variant of sign: the request is returned without the credentials.
sign_Unsigned(tok, request) ==
    IF ~IsSome(tok)
    THEN [status |-> "rejected", request |-> request, authorization |-> None]
    ELSE [status |-> "resolved", request |-> request, authorization |-> None]

\* sign(options): rejects without a token, else what token.sign(options)
\* returns: the request description with the bearer credentials added.
sign(tok, request) ==
    IF ~IsSome(tok)
    THEN [status |-> "rejected", request |-> request, authorization |-> None]
    ELSE [status |-> "resolved", request |-> request,
          authorization |-> Some(Get(tok).accessToken)]

SignRequests == {[method |-> "GET", url |-> "/api"], [method |-> "POST", url |-> "/api"]}
NotSigned == [status |-> "none", request |-> [method |-> "", url |-> ""],
              authorization |-> None]

\* --------------------------------------------------------- the constructor
\* The parameters the constructor requires, in the order it checks them
\* (LOAuth.ts 24-32).
required ==
    <<"clientId", "authorizationUri", "accessTokenUri", "redirectUri",
      "logoutUri", "logoutRedirectUri", "scopes">>

\* !options[param]: the parameter is missing or is the empty string.
Falsy(v) == ~IsSome(v) \/ Get(v) = ""

\* The first required parameter the loop of lines 33-38 finds falsy, if any.
RECURSIVE FirstMissing(_, _)
FirstMissing(params, options) ==
    IF params = <<>> THEN None
    ELSE IF Falsy(options[Head(params)]) THEN Some(Head(params))
    ELSE FirstMissing(Tail(params), options)

\* A string with a character outside Latin-1 (the snowman, U+2603), as
\* URLSearchParams decodes it from %E2%98%83. JSON.stringify leaves it as it
\* is and btoa throws on it.
Wide == "U+2603"
btoaThrows(state) == \E i \in DOMAIN state : state[i][2] = Wide

\* Faulty variant of the constructor: the parameters are checked in another
\* order.
new_ChecksBackwards(loc, options) ==
    LET missing == FirstMissing(
                       [i \in DOMAIN required |-> required[Len(required) + 1 - i]],
                       options)
    IN IF IsSome(missing)
       THEN [thrown |-> Some(<<"LOAuth ctor param", Get(missing), "is required">>),
             created |-> FALSE, decoded |-> FALSE]
       ELSE [thrown |-> None, created |-> TRUE, decoded |-> TRUE]

\* new LOAuth(options) on the page at loc (LOAuth.ts 23-53): what it throws,
\* whether it got to decode the application state and to create the OAuth
\* client.
new(loc, options) ==
    LET missing == FirstMissing(required, options)
    IN IF IsSome(missing)
       THEN [thrown |-> Some(<<"LOAuth ctor param", Get(missing), "is required">>),
             created |-> FALSE, decoded |-> FALSE]
       ELSE IF btoaThrows(ObjAssign(decodeAppState(loc), options.appState))
       THEN [thrown |-> Some(<<"InvalidCharacterError">>),
             created |-> FALSE, decoded |-> TRUE]
       ELSE [thrown |-> None, created |-> TRUE, decoded |-> TRUE]

\* The redirect URIs an application registers, and the page each names.
RedirectUris == {"https://app/", "https://app/callback"}
PageOf(uri) ==
    IF uri = "https://app/callback"
    THEN Url(AppOrigin(""), "/callback", <<>>)
    ELSE Url(AppOrigin(""), "/", <<>>)

\* The application state a caller passes: none, a locked account and a field
\* of its own, or a field with a character outside Latin-1.
CallerStates ==
    { <<>>,
      << <<"account", "locked">>, <<"myField", "myValue">> >>,
      << <<"note", Wide>> >> }

\* The configurations an application may construct the controller with: any
\* of the required parameters missing (the client id also empty), either
\* redirect URI, any caller state.
ParamChoices(p) ==
    IF p = "clientId" THEN {None, Some(""), DefaultConfig[p]}
    ELSE IF p = "redirectUri" THEN {None} \cup {Some(u) : u \in RedirectUris}
    ELSE {None, DefaultConfig[p]}
Configs ==
    { [clientId |-> a, authorizationUri |-> b, accessTokenUri |-> c,
       redirectUri |-> d, logoutUri |-> e, logoutRedirectUri |-> f, scopes |-> g,
       storageKey |-> None, storage |-> None, appState |-> st] :
        a \in ParamChoices("clientId"), b \in ParamChoices("authorizationUri"),
        c \in ParamChoices("accessTokenUri"), d \in ParamChoices("redirectUri"),
        e \in ParamChoices("logoutUri"), f \in ParamChoices("logoutRedirectUri"),
        g \in ParamChoices("scopes"), st \in CallerStates }

\* The pages a user opens the application on: a path, and a query string
\* with whitelisted and other parameters, an empty one, one outside Latin-1,
\* or a state parameter left from an earlier login.
PagePaths == {"", "/", "/deep"}
PageSearches ==
    { <<>>,
      << <<"account", Str("acme")>> >>,
      << <<"projectId", Str("p1")>>, <<"tab", Str("x")>>, <<"account", Str("acme")>> >>,
      << <<"account", Str("")>>, <<"cohortId", Str("c1")>> >>,
      << <<"cohortId", Str(Wide)>> >>,
      << <<"account", Str("acme")>>,
         <<"state", B64(<< <<"pathname", "/old">>, <<"account", "other">> >>)>> >>,
      << <<"account", Str("acme")>>, <<"state", Str("%%%")>> >> }
PageLocations == { Url(AppOrigin(""), p, q) : p \in PagePaths, q \in PageSearches }
RootPage == Url(AppOrigin(""), "/", <<>>)

\* The configurations with every required parameter.
Complete == { o \in Configs : FirstMissing(required, o) = None }

\* ------------------------------------------------------ the hand-off cookie
\* The sources hold no code for the hand-off cookie, only its tests; this
\* section follows the specification (acquire, step 1; hand-off cookie
\* format) and those tests.

\* The access token a cooperating application hands over, the domain it
\* hands it over on and the instants it may expire at.
HandedToken == 9
CookieDomain == "us.example.com"
CookieExpiries == {100000, 600000}

\* document.cookie: a hand-off cookie with valid fields, one whose value
\* cannot be parsed into a token, or some other cookie.
HandOffCookie(expires) ==
    [name |-> AUTH_STORAGE_KEY, parses |-> TRUE,
     value |-> Some([access_token |-> HandedToken,
                     refresh_token |-> Some(HandedToken),
                     expires |-> expires, clientId |-> "cid",
                     cookieDomain |-> CookieDomain]),
     domain |-> CookieDomain, maxAge |-> 10]
MalformedCookie ==
    [name |-> AUTH_STORAGE_KEY, parses |-> FALSE, value |-> Some("{"),
     domain |-> CookieDomain, maxAge |-> 10]
OtherCookie ==
    [name |-> "fake cookie", parses |-> FALSE, value |-> None,
     domain |-> CookieDomain, maxAge |-> 10]
Cookies == {HandOffCookie(e) : e \in CookieExpiries} \cup {MalformedCookie, OtherCookie}

\* The cookie that deletes a hand-off cookie: no value, a negative Max-Age.
DeletedCookie(domain) ==
    [name |-> AUTH_STORAGE_KEY, parses |-> FALSE, value |-> None,
     domain |-> domain, maxAge |-> -9999]

\* Faulty variant of the hand-off: the token is adopted and the cookie is
\* left in place.
getDomainCookieAuthState_KeepsCookie(S, t) ==
    IF IsSome(S.cookie) /\ Get(S.cookie).name = AUTH_STORAGE_KEY
       /\ IsSome(Get(S.cookie).value) /\ Get(S.cookie).parses
    THEN LET fields == Get(Get(S.cookie).value)
             tok == expiresIn(createToken(TokenData(fields.access_token,
                                                    fields.refresh_token, 0), now),
                              Date(fields.expires))
         IN storeTokenData(Log([S EXCEPT !.token = Some(tok)], t, "createToken"), t)
    ELSE S

\* _getDomainCookieAuthState: a hand-off cookie that parses becomes the
\* token (the cookie carries the absolute expiry and no relative lifetime),
\* the token is stored and the cookie deleted; one that does not parse is
\* logged; without a hand-off cookie nothing happens.
getDomainCookieAuthState(S, t) ==
    IF ~IsSome(S.cookie) \/ Get(S.cookie).name # AUTH_STORAGE_KEY
       \/ ~IsSome(Get(S.cookie).value)
    THEN S
    ELSE IF ~Get(S.cookie).parses
    THEN Log(S, t, "warn:cookie")
    ELSE LET fields == Get(Get(S.cookie).value)
             tok == expiresIn(createToken(TokenData(fields.access_token,
                                                    fields.refresh_token, 0), now),
                              Date(fields.expires))
             S1 == storeTokenData(Log([S EXCEPT !.token = Some(tok)],
                                      t, "createToken"), t)
         IN Log([S1 EXCEPT !.cookie = Some(DeletedCookie(fields.cookieDomain))],
                t, "cookie:delete")

\* refreshAccessToken with the hand-off: without a token the cookie is
\* looked at first; when it gave a token the call is over, otherwise it goes
\* on as refreshAccessToken does.
refreshWithHandOff(S, t, options) ==
    IF IsSome(S.token) THEN Enter(S, t, options)
    ELSE LET S1 == getDomainCookieAuthState(S, t)
         IN IF IsSome(S1.token)
            THEN [S1 EXCEPT !.call[t].status = "resolved"]
            ELSE Enter(S1, t, options)

\* ------------------------------------------------- the API-based variant
\* APIBasedAuth.ts 4-13: the fields of a session and of a token record, in
\* the order they are read, written and removed, and their default keys.
SESSION_KEYS == <<"session", "username">>
TOKEN_KEYS == <<"accessToken", "idToken", "refreshToken">>
StorageFields == {"accessToken", "idToken", "refreshToken", "session", "username"}
DEFAULT_STORAGE_KEYS ==
    [accessToken  |-> Some("lo-app-tools-api-auth.accessToken"),
     idToken      |-> Some("lo-app-tools-api-auth.idToken"),
     refreshToken |-> Some("lo-app-tools-api-auth.refreshToken"),
     session      |-> Some("lo-app-tools-api-auth.session"),
     username     |-> Some("lo-app-tools-api-auth.username")]

\* The configurations of the variant: with or without a client id, with or
\* without a store; the storageKeys the caller passes are nothing, a key of
\* its own for some fields, or undefined for the fields it does not want
\* persisted.
\* The store's operations return promises, or the values themselves (as
\* window.localStorage does).
ApiConfigs ==
    { config \in
        [clientId : {None, Some("cid")}, storage : BOOLEAN, promises : BOOLEAN,
         storageKeys : { <<>>,
                         [session |-> None],
                         [session |-> None, username |-> None],
                         [accessToken |-> None],
                         [session |-> Some("my.session"), idToken |-> Some("my.idToken")] }] :
        config.promises => config.storage }

\* The keys the store may hold a value under.
ApiKeys ==
    {Get(DEFAULT_STORAGE_KEYS[f]) : f \in StorageFields} \cup {"my.session", "my.idToken"}

\* What the store holds when the page is opened: nothing, or the session and
\* username an earlier page left under the default keys, or a username only.
InitialStores ==
    LET empty == [k \in ApiKeys |-> None]
    IN { empty,
         [empty EXCEPT !["lo-app-tools-api-auth.session"] = Some("s0"),
                       !["lo-app-tools-api-auth.username"] = Some("u0")],
         [empty EXCEPT !["lo-app-tools-api-auth.username"] = Some("u0")] }

\* An object is a function from the names of its properties; a property that
\* is not there reads as undefined. {...a, ...b} takes every property of b,
\* an undefined one too, over a's.
Prop(object, name) == IF name \in DOMAIN object THEN object[name] ELSE None
Spread(a, b) ==
    [name \in DOMAIN a \cup DOMAIN b |-> IF name \in DOMAIN b THEN b[name] ELSE a[name]]

\* Before the constructor has run. The config is what the caller passed to
\* the constructor; the call is what the current call of a
\* public operation did: the request it sent, the storage operations it
\* issued in order, how it settled and with what, and the store and session
\* handle it found.
NoAuth ==
    [constructed |-> FALSE, thrown |-> None, config |-> <<>>, clientOptions |-> <<>>,
     session |-> None, store |-> [k \in ApiKeys |-> None],
     call |-> [n |-> 0, op |-> "none", input |-> <<>>, status |-> "none",
               request |-> None, ops |-> <<>>, result |-> None, answer |-> None,
               session0 |-> None, store0 |-> [k \in ApiKeys |-> None]]]

\* APIBasedAuth.ts 105: a key the caller passes, an undefined one too,
\* replaces the default one.
mergedStorageKeys_DropsUndefined(storageKeys) ==
    [f \in StorageFields |->
        IF f \in DOMAIN storageKeys /\ IsSome(storageKeys[f])
        THEN storageKeys[f] ELSE DEFAULT_STORAGE_KEYS[f]]

mergedStorageKeys(storageKeys) ==
    [f \in StorageFields |->
        IF f \in DOMAIN storageKeys THEN storageKeys[f] ELSE DEFAULT_STORAGE_KEYS[f]]

\* One storage operation, recorded in the call and applied to the store.
getItem(A, key) == [A EXCEPT !.call.ops = @ \o << <<"getItem", key>> >>]
setItem(A, key, value) ==
    [A EXCEPT !.call.ops = @ \o << <<"setItem", key, value>> >>,
              !.store[key] = Some(value)]
removeItem(A, key) ==
    [A EXCEPT !.call.ops = @ \o << <<"removeItem", key>> >>,
              !.store[key] = None]

\* APIBasedAuth.ts 228-253: _getFromStorage. R.values is what it returns, R.A
\* the instance afterwards. The handle in memory is returned as it is;
\* otherwise each configured field is read, a value that is not empty is kept,
\* and what was read becomes the handle.
RECURSIVE readEach(_, _, _)
readEach(A, keys, storedValues) ==
    IF keys = <<>> THEN [A |-> A, values |-> storedValues]
    ELSE LET key == Head(keys)
             storageKey == A.clientOptions.storageKeys[key]
         IN IF ~Falsy(storageKey)
            THEN LET item == A.store[Get(storageKey)]
                 IN readEach(getItem(A, Get(storageKey)), Tail(keys),
                             IF ~Falsy(item)
                             THEN [f \in DOMAIN storedValues \cup {key} |->
                                      IF f = key THEN item ELSE storedValues[f]]
                             ELSE storedValues)
            ELSE readEach(A, Tail(keys), storedValues)

getFromStorage_AlwaysReads(A) ==
    IF A.clientOptions.storage
    THEN LET R == readEach(A, SESSION_KEYS, <<>>)
         IN [A |-> [R.A EXCEPT !.session = Some(R.values)], values |-> R.values]
    ELSE [A |-> A, values |-> <<>>]

getFromStorage(A) ==
    IF IsSome(A.session) THEN [A |-> A, values |-> Get(A.session)]
    ELSE IF A.clientOptions.storage
    THEN LET R == readEach(A, SESSION_KEYS, <<>>)
         IN [A |-> [R.A EXCEPT !.session = Some(R.values)], values |-> R.values]
    ELSE [A |-> A, values |-> <<>>]

\* APIBasedAuth.ts 255-271: the keys _removeFromStorage removes, in order.
removableKeys_SessionOnly(A, type) ==
    IF A.clientOptions.storage /\ type = "session"
    THEN SelectSeq(SESSION_KEYS, LAMBDA key : ~Falsy(A.clientOptions.storageKeys[key]))
    ELSE <<>>

removableKeys(A, type) ==
    LET keys == IF type = "session" THEN SESSION_KEYS ELSE TOKEN_KEYS
    IN IF A.clientOptions.storage
       THEN SelectSeq(keys, LAMBDA key : ~Falsy(A.clientOptions.storageKeys[key]))
       ELSE <<>>

\* APIBasedAuth.ts 273-292: _store. A session becomes the handle in memory;
\* each field with a configured key and a string value is written.
RECURSIVE writeEach(_, _, _)
writeEach(A, keys, valuesToStore) ==
    IF keys = <<>> THEN A
    ELSE LET key == Head(keys)
             storageKey == A.clientOptions.storageKeys[key]
             storageValue == Prop(valuesToStore, key)
         IN writeEach(IF ~Falsy(storageKey) /\ IsSome(storageValue)
                      THEN setItem(A, Get(storageKey), Get(storageValue))
                      ELSE A,
                      Tail(keys), valuesToStore)

store(A, type, valuesToStore) ==
    LET A1 == IF type = "session" THEN [A EXCEPT !.session = Some(valuesToStore)] ELSE A
    IN IF A.clientOptions.storage
       THEN writeEach(A1, IF type = "session" THEN SESSION_KEYS ELSE TOKEN_KEYS, valuesToStore)
       ELSE A1

\* APIBasedAuth.ts 214-219: setTokens.
setTokens(A, tokens) == store(A, "token", tokens)

\* A call of a public operation starts; it sends a request; it settles, with
\* a value or an error, after the provider's answer if it asked for one.
Begin(A, op, input) ==
    [A EXCEPT !.call = [n |-> A.call.n + 1, op |-> op, input |-> input,
                        status |-> "pending", request |-> None, ops |-> <<>>,
                        result |-> None, answer |-> None,
                        session0 |-> A.session, store0 |-> A.store]]
Post(A, path, body) == [A EXCEPT !.call.request = Some([path |-> path, body |-> body])]
Settle(A, status, value, answer) ==
    [A EXCEPT !.call.status = status, !.call.result = value, !.call.answer = answer]

\* APIBasedAuth.ts 221-226: the two removals of logout run side by side, each
\* going on when the store has answered its previous removeItem: their
\* removeItem calls alternate.
RECURSIVE Alternate(_, _)
Alternate(a, b) ==
    IF a = <<>> THEN b ELSE <<Head(a)>> \o Alternate(b, Tail(a))

RECURSIVE removeEach(_, _)
removeEach(A, keys) ==
    IF keys = <<>> THEN A
    ELSE removeEach(removeItem(A, Get(A.clientOptions.storageKeys[Head(keys)])), Tail(keys))

\* APIBasedAuth.ts 138-145: getAccessToken is not an async function: it
\* returns what the store's getItem returns, a promise of the value or the
\* value itself, and without a store or a key it returns undefined.
APIBasedAuth_getAccessToken_DefaultKey(A) ==
    LET A0 == Begin(A, "getAccessToken", <<>>)
        storageKey == DEFAULT_STORAGE_KEYS[TOKEN_KEYS[1]]
    IN IF A.clientOptions.storage
       THEN Settle(getItem(A0, Get(storageKey)),
                   IF A.clientOptions.promises THEN "resolved" ELSE "returned",
                   Some(A.store[Get(storageKey)]), None)
       ELSE Settle(A0, "returned", None, None)

APIBasedAuth_getAccessToken(A) ==
    LET A0 == Begin(A, "getAccessToken", <<>>)
        storageKey == A.clientOptions.storageKeys[TOKEN_KEYS[1]]
    IN IF A.clientOptions.storage /\ ~Falsy(storageKey)
       THEN Settle(getItem(A0, Get(storageKey)),
                   IF A.clientOptions.promises THEN "resolved" ELSE "returned",
                   Some(A.store[Get(storageKey)]), None)
       ELSE Settle(A0, "returned", None, None)

\* ------------------------------------------------------------------- Init
Init ==
    /\ \E options \in CtorOptions, loc \in InitialLocations, rec \in PreviousRecords :
          /\ ctorParams = options
          /\ clientOptions = Construct(options)
          /\ client = [state |-> getStateForClientOAuth(loc, options)]
          /\ location = loc
          /\ appState = decodeAppState(loc)
          /\ storage = [s \in StorageNames |-> [k \in StorageKeys |->
                IF s = Construct(options).storage /\ k = Construct(options).storageKey
                THEN rec ELSE None]]
    /\ token = None
    /\ refreshInterval = None
    /\ now = 0
    /\ issued = 0
    /\ ncalls = 0
    /\ stack = [t \in Tasks |-> <<>>]
    /\ call = [t \in Tasks |-> NoCall]
    /\ signed = NotSigned
    /\ timers = <<>>
    /\ nticks = 0
    /\ thrown = None
    /\ cookie = None
    /\ api = NoAuth

\* ---------------------------------------------------------------- actions
Idle(t) == stack[t] = <<>>
At(t, pc) == stack[t] # <<>> /\ Top(Cur, t).pc = pc

\* Date.now() moves on.
Tick ==
    /\ now < MaxTicks * TimeStep
    /\ now' = now + TimeStep
    /\ UNCHANGED <<api, ctorParams, token, refreshInterval, storage, clientOptions, client, location, appState,
                   issued, ncalls, stack, call, signed, timers, nticks, thrown, cookie>>

\* The application calls refreshAccessToken(options).
CallRefreshAccessToken(t, options) ==
    /\ Idle(t)
    /\ ncalls < MaxCalls
    /\ ncalls' = ncalls + 1
    /\ LET S == [Cur EXCEPT !.call[t] =
                    [NoCall EXCEPT !.n = ncalls + 1, !.op = "refreshAccessToken",
                                   !.status = "pending", !.options = options,
                                   !.entryToken = token, !.entryStored = Stored(Cur)]]
       IN Commit(Enter(S, t, options))
    /\ UNCHANGED <<api, ctorParams, clientOptions, client, now, issued, signed, nticks, thrown>>

\* client.code.getToken resolves with a token.
ExchangeResolve(t, e) ==
    /\ At(t, "getToken")
    /\ issued < MaxTokens
    /\ issued' = issued + 1
    /\ Commit(ExchangeSucceeded(Cur, t, TokenData(issued + 1, Some(issued + 1), e)))
    /\ UNCHANGED <<api, ctorParams, clientOptions, client, now, ncalls, signed, nticks, thrown>>

\* client.code.getToken rejects.
ExchangeReject(t) ==
    /\ At(t, "getToken")
    /\ Commit(Catch(Log(Cur, t, "getToken:rejected"), t))
    /\ UNCHANGED <<api, ctorParams, clientOptions, client, now, issued, ncalls, signed, nticks, thrown>>

\* window.fetch rejects (a network error).
FetchError(t) ==
    /\ At(t, "fetch")
    /\ Commit(Catch(Log(Cur, t, "fetch:error"), t))
    /\ UNCHANGED <<api, ctorParams, clientOptions, client, now, issued, ncalls, signed, nticks, thrown>>

\* window.fetch resolves with a response that is not OK.
FetchNotOk(t) ==
    /\ At(t, "fetch")
    /\ Commit(RefreshNotOk(Cur, t))
    /\ UNCHANGED <<api, ctorParams, clientOptions, client, now, issued, ncalls, signed, nticks, thrown>>

\* window.fetch resolves with an OK response; its body is read next.
FetchOk(t) ==
    /\ At(t, "fetch")
    /\ Commit(SetPc(Log(Cur, t, "fetch:ok"), t, "json"))
    /\ UNCHANGED <<api, ctorParams, clientOptions, client, now, issued, ncalls, signed, nticks, thrown>>

\* response.json() resolves: a new access token, with or without a new
\* refresh token.
JsonResolve(t, e, rotate) ==
    /\ At(t, "json")
    /\ issued < MaxTokens
    /\ issued' = issued + 1
    /\ Commit(RefreshSucceeded(Cur, t,
          TokenData(issued + 1, IF rotate THEN Some(issued + 1) ELSE None, e)))
    /\ UNCHANGED <<api, ctorParams, clientOptions, client, now, ncalls, signed, nticks, thrown>>

\* response.json() rejects (the body is not JSON).
JsonReject(t) ==
    /\ At(t, "json")
    /\ Commit(Catch(Log(Cur, t, "json:rejected"), t))
    /\ UNCHANGED <<api, ctorParams, clientOptions, client, now, issued, ncalls, signed, nticks, thrown>>

\* The application calls sign(request).
Sign(t, request) ==
    /\ Idle(t)
    /\ ncalls < MaxCalls
    /\ ncalls' = ncalls + 1
    /\ signed' = sign(token, request)
    /\ call' = [call EXCEPT ![t] = [NoCall EXCEPT !.n = ncalls + 1, !.op = "sign",
                                                  !.status = sign(token, request).status,
                                                  !.request = request,
                                                  !.entryToken = token,
                                                  !.entryStored = Stored(Cur)]]
    /\ UNCHANGED <<api, ctorParams, token, refreshInterval, storage, clientOptions, client, location, appState,
                   now, issued, stack, timers, nticks, thrown, cookie>>

\* The application makes its calls one after the other.
Next ==
    \/ Tick
    \/ \E o \in CallOptions : CallRefreshAccessToken("app", o)
    \/ \E e \in ExpiresInChoices : ExchangeResolve("app", e)
    \/ ExchangeReject("app")
    \/ FetchError("app")
    \/ FetchNotOk("app")
    \/ FetchOk("app")
    \/ \E e \in ExpiresInChoices, rotate \in BOOLEAN : JsonResolve("app", e, rotate)
    \/ JsonReject("app")
    \/ \E r \in SignRequests : Sign("app", r)

Spec == Init /\ [][Next]_vars

\* ------------------------------------------- automatic refresh and logout
\* Clock steps of one default poll interval in the specifications with a
\* timer.
MaxPolls == 2
\* Calls the application makes in those specifications.
MaxAutoCalls == 3

\* A timer that is not cancelled and whose interval has elapsed.
Due(h) == ~timers[h].cleared /\ timers[h].due <= now

\* Date.now() moves on by one poll interval; timers that are due fire first.
Elapse ==
    /\ now < MaxPolls * TimeStep
    /\ \A h \in DOMAIN timers : ~Due(h)
    /\ now' = now + TimeStep
    /\ UNCHANGED <<api, ctorParams, token, refreshInterval, storage, clientOptions, client, location, appState,
                   issued, ncalls, stack, call, signed, timers, nticks, thrown, cookie>>

\* The application calls startAutomaticTokenRefresh(options).
CallStartAutomaticTokenRefresh(t, options) ==
    /\ Idle(t)
    /\ ncalls < MaxAutoCalls
    /\ ncalls' = ncalls + 1
    /\ LET opts == [expiringRefresh |-> FALSE, refreshWindow |-> options.refreshWindow]
           S == [Cur EXCEPT !.call[t] =
                    [NoCall EXCEPT !.n = ncalls + 1, !.op = "startAutomaticTokenRefresh",
                                   !.status = "pending", !.options = opts,
                                   !.interval = options.interval,
                                   !.entryToken = token, !.entryStored = Stored(Cur)]]
       IN Commit(IF ~IsSome(token) THEN Enter(S, t, opts)
                 ELSE Settled(S, t, "resolved"))
    /\ UNCHANGED <<api, ctorParams, clientOptions, client, now, issued, signed, nticks, thrown>>

\* The window runs the callback of timer h, which is due; the timer is due
\* again one interval later.
TimerFire(t, h) ==
    /\ Idle(t)
    /\ h \in DOMAIN timers /\ Due(h)
    /\ nticks' = nticks + 1
    /\ LET S == [Cur EXCEPT !.timers[h].due = now + timers[h].interval,
                            !.call[t] =
                    [NoCall EXCEPT !.n = nticks + 1, !.op = "tick",
                                   !.status = "pending", !.at = now,
                                   !.previous =
                                       IF call[t].op = "tick"
                                       THEN Append(call[t].previous, call[t].log[1])
                                       ELSE <<>>,
                                   !.options = [expiringRefresh |-> TRUE,
                                                refreshWindow |-> timers[h].window],
                                   !.entryToken = token, !.entryStored = Stored(Cur)]]
       IN Commit(timerCallback(S, t, h))
    /\ UNCHANGED <<api, ctorParams, clientOptions, client, now, issued, ncalls, signed, thrown>>

\* The application calls stopAutomaticTokenRefresh().
CallStopAutomaticTokenRefresh(t) ==
    /\ Idle(t)
    /\ ncalls < MaxAutoCalls
    /\ ncalls' = ncalls + 1
    /\ LET S == [Cur EXCEPT !.call[t] =
                    [NoCall EXCEPT !.n = ncalls + 1, !.op = "stopAutomaticTokenRefresh",
                                   !.status = "pending",
                                   !.entryToken = token, !.entryStored = Stored(Cur)]]
       IN Commit([stopAutomaticTokenRefresh(S, t) EXCEPT !.call[t].status = "resolved"])
    /\ UNCHANGED <<api, ctorParams, clientOptions, client, now, issued, signed, nticks, thrown>>

\* The application calls logout().
CallLogout(t) ==
    /\ Idle(t)
    /\ ncalls < MaxAutoCalls
    /\ ncalls' = ncalls + 1
    /\ LET S == [Cur EXCEPT !.call[t] =
                    [NoCall EXCEPT !.n = ncalls + 1, !.op = "logout",
                                   !.status = "pending",
                                   !.entryToken = token, !.entryStored = Stored(Cur)]]
       IN Commit(logout(S, t))
    /\ UNCHANGED <<api, ctorParams, clientOptions, client, now, issued, signed, nticks, thrown>>

\* logout goes on after awaiting stopAutomaticTokenRefresh.
LogoutResume(t) ==
    /\ At(t, "await263")
    /\ Commit(logoutResume(Cur, t))
    /\ UNCHANGED <<api, ctorParams, clientOptions, client, now, issued, ncalls, signed, nticks, thrown>>

\* A page load with the default storage, back from the identity provider.
InitAuto ==
    /\ Init
    /\ ctorParams.storage = None
    /\ location.pathname = "/" /\ location.search # <<>>

\* The lifetime of the tokens issued while the timer runs: six minutes.
IssuedLifetimes == {e \in ExpiresInChoices : e > AUTH_REFRESH_WINDOW * 60}

\* The answer to a request of task t arrives; a refreshed token comes with a
\* new refresh token.
Network(t) ==
    \/ \E e \in IssuedLifetimes : ExchangeResolve(t, e)
    \/ ExchangeReject(t)
    \/ FetchError(t)
    \/ FetchNotOk(t)
    \/ FetchOk(t)
    \/ \E e \in IssuedLifetimes : JsonResolve(t, e, TRUE)

\* A continuation that is ready to run (a microtask): logout awaits a promise
\* that is already resolved. It runs before any timer callback or network
\* answer and before the clock moves on.
Ready(t) == At(t, "await263")

\* The application makes its calls one after the other while the timer it
\* started runs its callbacks; a callback is not started while the previous
\* one is still pending.
NextAuto ==
    \/ LogoutResume("app")
    \/ ~Ready("app") /\ Elapse
    \/ \E o \in StartOptions : CallStartAutomaticTokenRefresh("app", o)
    \/ CallStopAutomaticTokenRefresh("app")
    \/ CallLogout("app")
    \/ \E h \in 1..MaxAutoCalls : ~Ready("app") /\ TimerFire("timer", h)
    \/ ~Ready("app") /\ Network("app")
    \/ ~Ready("app") /\ Network("timer")

SpecAuto == InitAuto /\ [][NextAuto]_vars

\* Two callers start and stop the automatic refresh; the calls of one overlap
\* the calls of the other.
NextOverlap ==
    \/ \E t \in {"app", "app2"}, o \in StartOptions :
          CallStartAutomaticTokenRefresh(t, o)
    \/ CallStopAutomaticTokenRefresh("app")
    \/ Network("app")
    \/ Network("app2")

SpecOverlap == InitAuto /\ [][NextOverlap]_vars

\* ------------------------------------------------------------- page loads
\* The page is loaded at loc and the application constructs its controller
\* with options: what was in memory is gone, the store stays. When the
\* constructor throws, the application has no controller (thrown says so).
Load(t, loc, options) ==
    /\ ncalls < MaxCalls
    /\ ncalls' = ncalls + 1
    /\ location' = loc
    /\ token' = None /\ refreshInterval' = None /\ timers' = <<>>
    /\ stack' = [u \in Tasks |-> <<>>]
    /\ LET made == new(loc, options)
       IN /\ thrown' = made.thrown
          /\ call' = [u \in Tasks |->
                IF u # t THEN NoCall
                ELSE [NoCall EXCEPT !.n = ncalls + 1, !.op = "constructor",
                         !.options = options,
                         !.status = IF IsSome(made.thrown) THEN "rejected"
                                    ELSE "resolved",
                         !.log = (IF made.decoded /\ decodeThrows(loc)
                                  THEN <<"warn:state">> ELSE <<>>)
                                 \o (IF made.created THEN <<"ClientOAuth2">>
                                     ELSE <<>>)]]
          /\ appState' = IF made.decoded THEN decodeAppState(loc) ELSE <<>>
          /\ IF made.created
             THEN /\ ctorParams' = options
                  /\ clientOptions' = Construct(options)
                  /\ client' = [state |-> getStateForClientOAuth(loc, options)]
             ELSE UNCHANGED <<ctorParams, clientOptions, client>>
    /\ UNCHANGED <<api, storage, now, issued, signed, nticks, cookie>>

\* The browser is at the identity provider's authorization page.
AtProvider == location.hostname = "idp" /\ location.pathname = "/authorize"

\* The URL the identity provider sends the browser back to: the redirect URI
\* with the code and the state it was given.
CallbackUrl ==
    LET page == PageOf(clientOptions.redirectUri)
        state == SearchGet(location.search, "state")
    IN [page EXCEPT !.search =
           << <<"code", Str("abc")>> >>
           \o (IF IsSome(state) THEN << <<"state", Get(state)>> >> ELSE <<>>)]

\* A first load of the root page with the default configuration and an
\* empty store.
InitLoad ==
    /\ Init
    /\ ctorParams = DefaultConfig
    /\ location = RootPage
    /\ Stored(Cur) = None

\* The user opens the application on some page (an application with an
\* incomplete configuration is opened on the root page: the constructor
\* checks the parameters before it reads the location); the controller
\* sends the browser to the identity provider, which sends it back; the
\* code is exchanged.
NextLoad ==
    \/ \E o \in Configs : ncalls = 0 /\ Load("app", RootPage, o)
    \/ \E loc \in PageLocations, o \in Complete : ncalls = 0 /\ Load("app", loc, o)
    \/ AtProvider /\ Load("app", CallbackUrl, ctorParams)
    \/ thrown = None /\ ~AtProvider /\ CallRefreshAccessToken("app", NoOptions)
    \/ \E e \in IssuedLifetimes : ExchangeResolve("app", e)
    \/ ExchangeReject("app")

SpecLoad == InitLoad /\ [][NextLoad]_vars

\* ---------------------------------------------------------- the hand-off
\* A cooperating application leaves a cookie before the page asks for a
\* token.
LeaveCookie(c) ==
    /\ cookie = None /\ token = None
    /\ \A t \in Tasks : Idle(t)
    /\ cookie' = Some(c)
    /\ UNCHANGED <<api, ctorParams, token, refreshInterval, storage, clientOptions,
                   client, location, appState, now, issued, ncalls, stack, call,
                   signed, timers, nticks, thrown>>

\* The application calls refreshAccessToken() of a controller that knows the
\* hand-off.
CallRefreshWithHandOff(t, options) ==
    /\ Idle(t)
    /\ ncalls < MaxCalls
    /\ ncalls' = ncalls + 1
    /\ LET S == [Cur EXCEPT !.call[t] =
                    [NoCall EXCEPT !.n = ncalls + 1, !.op = "refreshAccessToken",
                                   !.status = "pending", !.options = options,
                                   !.entryToken = token, !.entryStored = Stored(Cur)]]
       IN Commit(refreshWithHandOff(S, t, options))
    /\ UNCHANGED <<api, ctorParams, clientOptions, client, now, issued, signed, nticks, thrown>>

\* The page asks for a token with or without a cookie left for it; the
\* identity provider answers the code exchange and the refresh requests.
NextCookie ==
    \/ \E c \in Cookies : LeaveCookie(c)
    \/ Tick
    \/ CallRefreshWithHandOff("app", NoOptions)
    \/ \E e \in IssuedLifetimes : ExchangeResolve("app", e)
    \/ ExchangeReject("app")
    \/ FetchOk("app")
    \/ \E e \in IssuedLifetimes : JsonResolve("app", e, TRUE)

SpecCookie == Init /\ [][NextCookie]_vars

\* ------------------------------------------------------- logout targets
\* The configurations that differ in the logout URI: without and with a
\* query string.
LogoutConfigs ==
    {DefaultConfig, [DefaultConfig EXCEPT !.logoutUri = Some(LogoutUriWithQuery)]}

\* The application is opened on some page with one of these configurations,
\* asks for a token and logs out.
NextLogout ==
    \/ \E loc \in PageLocations, o \in LogoutConfigs :
           ncalls = 0 /\ Load("app", loc, o)
    \/ LogoutResume("app")
    \/ thrown = None /\ ~AtProvider /\ ~Ready("app")
       /\ CallRefreshAccessToken("app", NoOptions)
    \/ \E e \in IssuedLifetimes : ~Ready("app") /\ ExchangeResolve("app", e)
    \/ ~Ready("app") /\ ExchangeReject("app")
    \/ ncalls > 0 /\ thrown = None /\ ~AtProvider /\ CallLogout("app")

SpecLogout == InitLoad /\ [][NextLogout]_vars

\* ------------------------------------------------- overlapping refreshes
\* The application starts the automatic refresh and also asks for an expiring
\* refresh itself; the callbacks of the timer ("timer", "app2") run whenever
\* the timer is due, whatever is still awaiting an answer. The identity
\* provider answers every request with a token.
ExpiringRefresh == [expiringRefresh |-> TRUE, refreshWindow |-> None]

NextRace ==
    \/ CallStartAutomaticTokenRefresh("app", [refreshWindow |-> None, interval |-> None])
    \/ Elapse
    \/ CallRefreshAccessToken("app", ExpiringRefresh)
    \/ \E h \in 1..MaxAutoCalls : TimerFire("timer", h)
    \/ \E h \in 1..MaxAutoCalls : TimerFire("app2", h)
    \/ \E e \in IssuedLifetimes : ExchangeResolve("app", e)
    \/ \E t \in Tasks : FetchOk(t)
    \/ \E t \in Tasks, e \in IssuedLifetimes : JsonResolve(t, e, TRUE)

SpecRace == InitAuto /\ [][NextRace]_vars

\* ------------------------------------------------- the API-based variant
\* The application's calls of the variant's operations, MaxApiCalls of them.
MaxApiCalls == 3

\* The LOAuth controller's state, which the API-based variant does not touch.
controllerVars ==
    <<ctorParams, token, refreshInterval, storage, clientOptions, client,
      location, appState, now, issued, ncalls, stack, call, signed,
      timers, nticks, thrown, cookie>>

\* The token records the provider answers with.
TokenResponses ==
    { [accessToken |-> Some("a1"), idToken |-> Some("i1"), refreshToken |-> Some("r1")],
      [accessToken |-> Some("a2"), idToken |-> Some("i2"), refreshToken |-> Some("r2")] }

ApiIdle == api.constructed /\ api.call.status # "pending" /\ api.call.n < MaxApiCalls

\* APIBasedAuth.ts 87-112: the constructor, on a page whose store holds the
\* given contents.
NewAPIBasedAuth(config, contents) ==
    /\ ~api.constructed /\ api.thrown = None
    /\ api' = IF ~IsSome(config.clientId)
              THEN [NoAuth EXCEPT !.thrown = Some("APIBasedAuth param clientId is required"),
                                  !.config = config, !.store = contents]
              ELSE [NoAuth EXCEPT !.constructed = TRUE, !.config = config,
                                  !.store = contents,
                                  !.clientOptions =
                                      [clientId |-> Get(config.clientId),
                                       storage |-> config.storage,
                                       promises |-> config.promises,
                                       storageKeys |-> mergedStorageKeys(config.storageKeys)]]
    /\ UNCHANGED controllerVars

\* APIBasedAuth.ts 114-133: confirmPasswordlessAuth up to its request. The
\* stored values are spread over the caller's.
confirmPasswordlessAuth(baseInput) ==
    /\ ApiIdle
    /\ LET A0 == Begin(api, "confirmPasswordlessAuth", baseInput)
           R == IF Falsy(Prop(baseInput, "session")) \/ Falsy(Prop(baseInput, "username"))
                THEN getFromStorage(A0) ELSE [A |-> A0, values |-> <<>>]
           input == Spread(baseInput, R.values)
       IN api' = Post(R.A, "/passwordless-auth/verify",
                      [clientId |-> api.clientOptions.clientId,
                       code |-> Prop(input, "code"),
                       session |-> Prop(input, "session"),
                       username |-> Prop(input, "username")])
    /\ UNCHANGED controllerVars

\* APIBasedAuth.ts 134-135: the tokens arrived.
VerifyResolve(data) ==
    /\ api.call.status = "pending" /\ api.call.op = "confirmPasswordlessAuth"
    /\ api' = Settle(setTokens(api, data), "resolved", Some(data), Some(data))
    /\ UNCHANGED controllerVars

CallGetAccessToken ==
    /\ ApiIdle
    /\ api' = APIBasedAuth_getAccessToken(api)
    /\ UNCHANGED controllerVars

\* APIBasedAuth.ts 160-173: initiatePasswordAuth.
initiatePasswordAuth(input) ==
    /\ ApiIdle
    /\ api' = Post(Begin(api, "initiatePasswordAuth", input), "/login",
                   Spread([clientId |-> api.clientOptions.clientId], input))
    /\ UNCHANGED controllerVars

LoginResolve(data) ==
    /\ api.call.status = "pending" /\ api.call.op = "initiatePasswordAuth"
    /\ api' = Settle(setTokens(api, data), "resolved", Some(data), Some(data))
    /\ UNCHANGED controllerVars

\* APIBasedAuth.ts 175-192: initiatePasswordlessAuth.
initiatePasswordlessAuth(input) ==
    /\ ApiIdle
    /\ api' = Post(Begin(api, "initiatePasswordlessAuth", input), "/passwordless-auth",
                   [appsBaseUri |-> Prop(input, "appsBaseUri"),
                    clientId |-> api.clientOptions.clientId,
                    loginAppBasePath |-> Prop(input, "loginAppBasePath"),
                    username |-> Prop(input, "username")])
    /\ UNCHANGED controllerVars

PasswordlessResolve(data) ==
    /\ api.call.status = "pending" /\ api.call.op = "initiatePasswordlessAuth"
    /\ api' = Settle(store(api, "session",
                           [session |-> Prop(data, "session"),
                            username |-> Prop(api.call.input, "username")]),
                     "resolved", Some(data), Some(data))
    /\ UNCHANGED controllerVars

\* APIBasedAuth.ts 194-205: redeemCustomAppCode. The identity token is
\* stored as the idToken.
redeemCustomAppCode(code) ==
    /\ ApiIdle
    /\ api' = Post(Begin(api, "redeemCustomAppCode", [code |-> code]),
                   "/client-tokens/redeem",
                   [clientId |-> api.clientOptions.clientId, code |-> code])
    /\ UNCHANGED controllerVars

RedeemResolve_Unmapped(data) ==
    /\ api.call.status = "pending" /\ api.call.op = "redeemCustomAppCode"
    /\ api' = Settle(setTokens(api, data), "resolved", Some(data), Some(data))
    /\ UNCHANGED controllerVars

RedeemResolve(data) ==
    /\ api.call.status = "pending" /\ api.call.op = "redeemCustomAppCode"
    /\ api' = Settle(setTokens(api, Spread([idToken |-> Prop(data, "identityToken")], data)),
                     "resolved", Some(data), Some(data))
    /\ UNCHANGED controllerVars

\* A request that is rejected rejects the call: no operation catches.
PostReject_Wrapped(error) ==
    /\ api.call.status = "pending"
    /\ api' = Settle(api, "rejected", Some("Request failed"), Some(error))
    /\ UNCHANGED controllerVars

PostReject(error) ==
    /\ api.call.status = "pending"
    /\ api' = Settle(api, "rejected", Some(error), Some(error))
    /\ UNCHANGED controllerVars

\* APIBasedAuth.ts 214-219: setTokens called by the application.
CallSetTokens(tokens) ==
    /\ ApiIdle
    /\ api' = Settle(setTokens(Begin(api, "setTokens", tokens), tokens), "resolved", None, None)
    /\ UNCHANGED controllerVars

\* APIBasedAuth.ts 221-226: logout.
APIBasedAuth_logout ==
    /\ ApiIdle
    /\ LET A0 == [Begin(api, "logout", <<>>) EXCEPT !.session = None]
       IN api' = Settle(removeEach(A0, Alternate(removableKeys(api, "session"),
                                                 removableKeys(api, "token"))),
                        "resolved", None, None)
    /\ UNCHANGED controllerVars

\* The application constructs the instance and calls its operations one
\* after the other; the provider answers each request or rejects it.
NextApi ==
    \/ \E config \in ApiConfigs, contents \in InitialStores : NewAPIBasedAuth(config, contents)
    \/ \E baseInput \in
          { [code |-> Some("123")],
            [code |-> Some("123"), session |-> Some("mine")],
            [code |-> Some("123"), username |-> Some("me")],
            [code |-> Some("123"), session |-> Some("mine"), username |-> Some("me")] } :
          confirmPasswordlessAuth(baseInput)
    \/ initiatePasswordAuth([password |-> Some("password"), username |-> Some("a@b.com")])
    \/ initiatePasswordlessAuth([appsBaseUri |-> Some("api-base-uri"),
                                 loginAppBasePath |-> Some("login-app-base-path"),
                                 username |-> Some("a@b.com")])
    \/ redeemCustomAppCode("mock-code")
    \/ \E tokens \in TokenResponses : CallSetTokens(tokens)
    \/ CallGetAccessToken
    \/ APIBasedAuth_logout
    \/ \E data \in TokenResponses : VerifyResolve(data)
    \/ \E data \in TokenResponses : LoginResolve(data)
    \/ \E data \in {[session |-> Some("s1")], <<>>} : PasswordlessResolve(data)
    \/ RedeemResolve([accessToken |-> Some("a3"), identityToken |-> Some("i3"),
                      refreshToken |-> Some("r3")])
    \/ \E error \in {"test error", "invalid credentials"} : PostReject(error)

SpecApi == InitLoad /\ [][NextApi]_vars

\* ------------------------------------------------------------- properties
\* The effects task t's call has in the step at hand, in order.
Events(t) ==
    IF call'[t].n = call[t].n
    THEN SubSeq(call'[t].log, Len(call[t].log) + 1, Len(call'[t].log))
    ELSE call'[t].log
Occurs(t, event) == \E i \in DOMAIN Events(t) : Events(t)[i] = event

\* The step is a failed attempt of task t: the awaited exchange, request or
\* body read threw, and the catch block ran.
Failure(t) ==
    /\ Events(t) # <<>>
    /\ Events(t)[1] \in {"getToken:rejected", "fetch:error", "json:rejected"}

\* The refresh window, in minutes, that the options give.
WindowOf(options) ==
    IF IsSome(options.refreshWindow) THEN Get(options.refreshWindow) ELSE 5
MsPerMinute == 60 * 1000

\* The token a stored record describes.
Describes(rec, tok) ==
    /\ tok.accessToken = rec.access_token
    /\ tok.refreshToken = rec.refresh_token
    /\ tok.expires = rec.expires

\* The stored record is adopted and nothing else happens.
AdoptedQuietly(t) ==
    /\ IsSome(token') /\ Describes(Get(Stored(Cur)), Get(token'))
    /\ call'[t].fetches = call[t].fetches
    /\ call'[t].exchanges = call[t].exchanges
    /\ location' = location
    /\ storage' = storage
    /\ call'[t].status = "resolved"

\* C1, as stated: when an attempt of refreshAccessToken fails and the store
\* holds a record whose expiry is more than refreshWindow minutes away, the
\* record becomes the in-memory token, no refresh request is sent, the
\* location is not changed and the record stays in the store.
C1_AsStated ==
    [][\A t \in Tasks :
        ( /\ Failure(t)
          /\ IsSome(Stored(Cur))
          /\ Get(Stored(Cur)).expires - now >
                 WindowOf(Top(Cur, t).options) * MsPerMinute )
        => AdoptedQuietly(t)]_vars

\* C1, amended: the same when the expiry is at least refreshWindow + 1 whole
\* minutes away (the code compares the whole minutes left with the window).
C1_AdoptsFreshStoredToken ==
    [][\A t \in Tasks :
        ( /\ Failure(t)
          /\ IsSome(Stored(Cur))
          /\ Get(Stored(Cur)).expires - now >=
                 (WindowOf(Top(Cur, t).options) + 1) * MsPerMinute )
        => AdoptedQuietly(t)]_vars

\* A call that failed its exchange, found a record with six minutes left and
\* returned with it.
C1_Witness ==
    \E t \in Tasks :
        /\ call[t].status = "resolved"
        /\ call[t].log = <<"getToken", "getToken:rejected", "getItem", "createToken">>
        /\ Get(call[t].catches[1].stored).expires - call[t].catches[1].at
              >= 6 * MsPerMinute
        /\ IsSome(token) /\ Describes(Get(call[t].catches[1].stored), Get(token))
        /\ Stored(Cur) = call[t].entryStored

\* The call began with a failed code exchange and found a stored record with
\* at most refreshWindow minutes left.
C2_Case(c) ==
    /\ c.op = "refreshAccessToken"
    /\ Len(c.log) >= 2 /\ c.log[2] = "getToken:rejected"
    /\ IsSome(c.catches[1].stored)
    /\ Get(c.catches[1].stored).expires - c.catches[1].at
          <= WindowOf(c.catches[1].options) * MsPerMinute

\* C2: when the code exchange fails and the store holds a record within the
\* refresh window, the record is removed from the store and then one
\* refresh-token request, and only one, is sent by the call, whatever the
\* answer to it.
C2_RemovesThenRefreshesOnce ==
    \A t \in Tasks :
        C2_Case(call[t]) =>
            /\ Len(call[t].log) >= 6
            /\ SubSeq(call[t].log, 3, 6) = <<"getItem", "createToken", "removeItem", "fetch">>
            /\ call[t].fetches =
                 << [uri |-> "https://idp/token", method |-> "POST",
                     client_id |-> "cid", grant_type |-> "refresh_token",
                     refresh_token |-> Get(call[t].catches[1].stored).refresh_token,
                     redirect_uri |-> "https://app/"] >>
            /\ \/ Stored(Cur) = None
               \/ \E i \in 7..Len(call[t].log) : call[t].log[i] = "setItem"

\* Such a call has returned, after a non-OK answer to its one request.
C2_Witness ==
    \E t \in Tasks :
        /\ C2_Case(call[t])
        /\ call[t].status = "resolved"
        /\ Len(call[t].log) >= 7 /\ call[t].log[7] = "fetch:notok"
        /\ Len(call[t].fetches) = 1

C4_NeverRejects ==
    \A t \in Tasks :
        call[t].op = "refreshAccessToken" =>
            /\ call[t].status \in {"pending", "resolved"}
            /\ call[t].status = "resolved" =>
                 /\ stack[t] = <<>>
                 /\ \/ IsSome(token)
                    \/ \E i \in DOMAIN call[t].log : call[t].log[i] = "redirect"
            /\ call[t].status = "pending" =>
                 /\ stack[t] # <<>>
                 /\ Top(Cur, t).pc \in {"getToken", "fetch", "json"}

\* A call that went through every kind of failure: exchange rejected, stored
\* token expiring, refresh refused, second exchange rejected, redirect.
C4_Witness ==
    \E t \in Tasks :
        /\ call[t].status = "resolved"
        /\ call[t].depth = 3
        /\ Len(call[t].exchanges) = 2
        /\ call[t].log[Len(call[t].log)] = "redirect"
        /\ ~IsSome(token)

\* The cell of the store the controller uses, after the step.
StoredNext == storage'[clientOptions.storage][clientOptions.storageKey]

\* Task t starts a call in the step.
NewCall(t) == call'[t].n # call[t].n

\* The refresh-token request that carries refresh token r.
RefreshBody(r) ==
    [uri |-> "https://idp/token", method |-> "POST", client_id |-> "cid",
     grant_type |-> "refresh_token", refresh_token |-> r,
     redirect_uri |-> "https://app/"]

Last(seq) == seq[Len(seq)]

\* C5: when the token endpoint answers a refresh with a non-OK response, the
\* held token is dropped from memory, its record is removed from the store,
\* no token is made from the response, and one code exchange against the
\* current URL is started; the call goes on, nothing is thrown.
C5_NotOkRestartsFromNoToken ==
    [][\A t \in Tasks :
        (Events(t) # <<>> /\ Events(t)[1] = "fetch:notok")
        => /\ token' = None
           /\ StoredNext = None
           /\ issued' = issued
           /\ ~Occurs(t, "createToken") /\ ~Occurs(t, "setItem")
           /\ call'[t].exchanges = Append(call[t].exchanges, location)
           /\ call'[t].fetches = call[t].fetches
           /\ location' = location
           /\ call'[t].status = "pending"
           /\ Len(stack'[t]) = Len(stack[t]) + 1
           /\ Last(stack'[t]).pc = "getToken"]_vars

\* A call with expiringRefresh, made with a token held and stored, whose
\* request was answered non-OK.
C5_Witness ==
    \E t \in Tasks :
        /\ call[t].options.expiringRefresh
        /\ IsSome(call[t].entryToken) /\ IsSome(call[t].entryStored)
        /\ call[t].log = <<"fetch", "fetch:notok", "removeItem", "getToken">>
        /\ token = None /\ Stored(Cur) = None

\* The call was made with expiringRefresh while a token was held.
C6_Case(c) ==
    /\ c.op = "refreshAccessToken"
    /\ c.options.expiringRefresh
    /\ IsSome(c.entryToken)

\* C6, as stated: such a call sends exactly one POST with the held refresh
\* token, and once an OK response was read, memory and store hold the token
\* built from it.
C6_AsStated ==
    \A t \in Tasks :
        C6_Case(call[t]) =>
            /\ call[t].fetches = <<RefreshBody(Get(call[t].entryToken).refreshToken)>>
            /\ (call[t].status = "resolved" /\ Last(call[t].log) = "setItem"
                  /\ call[t].responses # <<>>)
               => /\ IsSome(token)
                  /\ Get(token).accessToken = Last(call[t].responses).access_token
                  /\ Stored(Cur) = Some(StoredRecord(Get(token)))

\* Every request of the call after its first follows a failed one: the catch
\* block found the stored record expiring and removed it.
LaterFetchesFollowFailure(c) ==
    \A i \in 2..Len(c.log) :
        c.log[i] = "fetch" =>
            /\ i >= 5
            /\ c.log[i - 1] = "removeItem"
            /\ c.log[i - 2] = "createToken"
            /\ c.log[i - 3] = "getItem"
            /\ c.log[i - 4] \in {"fetch:error", "json:rejected"}

\* The token built from response r when token old was held, at instant t.
BuiltFrom(r, old, t) ==
    LET refresh == IF IsSome(r.refresh_token) THEN r.refresh_token
                   ELSE old.refreshToken
    IN [accessToken |-> r.access_token, refreshToken |-> refresh,
        expires |-> t + r.expires_in * 1000,
        data |-> [access_token |-> r.access_token, refresh_token |-> refresh,
                  expires_in |-> r.expires_in]]

\* C6, amended: such a call sends one POST with the held refresh token on
\* entry, and at most one more, after the first failed and the stored record
\* was found expiring; when the body of an OK response is read the in-memory
\* token is replaced by the token built from it and that token is written to
\* the store before the call returns.
C6_RefreshReplacesAndStores ==
    [][\A t \in Tasks :
        /\ (NewCall(t) /\ C6_Case(call'[t]))
           => /\ Events(t) = <<"fetch">>
              /\ call'[t].fetches = <<RefreshBody(Get(token).refreshToken)>>
        /\ C6_Case(call'[t])
           => /\ Len(call'[t].fetches) <= 2
              /\ LaterFetchesFollowFailure(call'[t])
        /\ (Events(t) # <<>> /\ Events(t)[1] = "json:ok" /\ IsSome(token))
           => /\ token' = Some(BuiltFrom(Last(call'[t].responses), Get(token), now))
              /\ IsSome(StoredNext) /\ Describes(Get(StoredNext), Get(token'))
              /\ Get(StoredNext).expires_in = Last(call'[t].responses).expires_in
              /\ call'[t].status = "resolved"]_vars

\* A refresh that succeeded: one request, a new token in memory and store.
C6_Witness ==
    \E t \in Tasks :
        /\ C6_Case(call[t])
        /\ call[t].status = "resolved"
        /\ call[t].log = <<"fetch", "fetch:ok", "json:ok", "createToken", "setItem">>
        /\ Len(call[t].fetches) = 1
        /\ IsSome(token) /\ token # call[t].entryToken
        /\ Get(token).accessToken = issued
        /\ Stored(Cur) = Some(StoredRecord(Get(token)))

\* The cell of the storage and key the application configured, with the
\* documented defaults.
ConfiguredCell(st) ==
    st[IF IsSome(ctorParams.storage) THEN Get(ctorParams.storage) ELSE "localStorage"]
      [IF IsSome(ctorParams.storageKey) THEN Get(ctorParams.storageKey)
       ELSE "lo-app-tools-auth"]

\* The call was made with no token in memory.
C7_Case(c) == c.op = "refreshAccessToken" /\ ~IsSome(c.entryToken)

\* C7, as stated: such a call attempts the code exchange exactly once, against
\* the current URL, and after a successful exchange the token is held and its
\* record is in the configured store under the configured key.
C7_AsStated ==
    \A t \in Tasks :
        C7_Case(call[t]) =>
            /\ Len(call[t].exchanges) = 1
            /\ (call[t].status = "resolved" /\ call[t].responses # <<>>
                  /\ Last(call[t].log) = "replaceState")
               => /\ IsSome(token)
                  /\ IsSome(ConfiguredCell(storage))
                  /\ Describes(Get(ConfiguredCell(storage)), Get(token))

\* Every exchange of the call after its first follows a refresh that was
\* answered non-OK.
LaterExchangesFollowNotOk(c) ==
    \A i \in 2..Len(c.log) :
        c.log[i] = "getToken" =>
            /\ i >= 3
            /\ c.log[i - 1] = "removeItem"
            /\ c.log[i - 2] = "fetch:notok"

\* C7, amended: such a call attempts the code exchange against the current
\* URL once on entry, and at most once more, after the refresh of an expiring
\* stored token was answered non-OK; when an exchange succeeds the token is
\* held in memory and its record is written to the configured store under the
\* configured key before the call returns.
C7_ExchangesAndStores ==
    [][\A t \in Tasks :
        /\ (NewCall(t) /\ C7_Case(call'[t]))
           => /\ Events(t) = <<"getToken">>
              /\ call'[t].exchanges = <<location>>
        /\ C7_Case(call'[t])
           => /\ Len(call'[t].exchanges) <= 2
              /\ LaterExchangesFollowNotOk(call'[t])
        /\ (Events(t) # <<>> /\ Events(t)[1] = "getToken:ok")
           => /\ IsSome(token')
              /\ Get(token').accessToken = Last(call'[t].responses).access_token
              /\ Get(token').refreshToken = Last(call'[t].responses).refresh_token
              /\ Get(token').expires = now + Last(call'[t].responses).expires_in * 1000
              /\ IsSome(ConfiguredCell(storage'))
              /\ Describes(Get(ConfiguredCell(storage')), Get(token'))
              /\ call'[t].status = "resolved"]_vars

\* A first call whose exchange succeeded, with the application's own storage
\* and key.
C7_Witness ==
    \E t \in Tasks :
        /\ C7_Case(call[t])
        /\ call[t].status = "resolved"
        /\ call[t].log = <<"getToken", "getToken:ok", "setItem", "replaceState">>
        /\ ctorParams.storageKey = Some("my-key")
        /\ IsSome(token)
        /\ storage["custom"]["my-key"] = Some(StoredRecord(Get(token)))
        /\ storage["localStorage"]["lo-app-tools-auth"] = None

Whitelist == {"account", "projectId", "cohortId"}

\* The value under key k of an application state, "" when there is none.
Field(state, k) == IF IsSome(ObjGet(state, k)) THEN Get(ObjGet(state, k)) ELSE ""

\* C8: a successful code exchange replaces the browser location once, with
\* the origin of the page, the path of the decoded application state and the
\* whitelisted query parameters of that state, each once; code, state and
\* client_id are not in the new URL.
C8_RewritesLocation ==
    [][\A t \in Tasks :
        (Events(t) # <<>> /\ Events(t)[1] = "getToken:ok")
        => LET uri == Last(call'[t].replaced)
               queryState == SearchGet(location.search, "state")
           IN /\ Len(SelectSeq(Events(t), LAMBDA e : e = "replaceState")) = 1
              /\ Len(call'[t].replaced) = 1
              /\ location' = uri
              /\ uri.protocol = location.protocol
              /\ uri.hostname = location.hostname
              /\ uri.port = location.port
              /\ (IsSome(queryState) /\ Get(queryState).enc)
                 => \A i \in DOMAIN Get(queryState).obj :
                        Field(appState', Get(queryState).obj[i][1]) =
                            Get(queryState).obj[i][2]
              /\ uri.pathname = Field(appState', "pathname")
              /\ \A i \in DOMAIN uri.search :
                    /\ uri.search[i][1] \in Whitelist
                    /\ uri.search[i][1] \notin {"code", "state", "client_id"}
                    /\ uri.search[i][2] = Str(Field(appState', uri.search[i][1]))
                    /\ \A j \in DOMAIN uri.search :
                          uri.search[j][1] = uri.search[i][1] => j = i
              /\ \A p \in Whitelist :
                    Field(appState', p) # ""
                    => \E i \in DOMAIN uri.search : uri.search[i][1] = p]_vars

\* Back from the identity provider with code, state and client_id in the URL:
\* after the exchange the location is the original deep link.
C8_Witness ==
    \E t \in Tasks :
        /\ call[t].log = <<"getToken", "getToken:ok", "setItem", "replaceState">>
        /\ IsSome(SearchGet(call[t].exchanges[1].search, "code"))
        /\ IsSome(SearchGet(call[t].exchanges[1].search, "client_id"))
        /\ location = Url(AppOrigin(""), "/deep", << <<"account", Str("acme")>> >>)
        /\ call[t].replaced = <<location>>

\* C9: refreshAccessToken called without expiringRefresh while a token is
\* held does nothing, however often: no exchange, no request, no store
\* access, no change of location or token.
C9_NoOpWhenTokenHeld ==
    [][\A t \in Tasks :
        (NewCall(t) /\ call'[t].op = "refreshAccessToken" /\ IsSome(token)
           /\ ~call'[t].options.expiringRefresh)
        => /\ call'[t].log = <<>>
           /\ call'[t].exchanges = <<>> /\ call'[t].fetches = <<>>
           /\ call'[t].replaced = <<>>
           /\ call'[t].status = "resolved"
           /\ stack'[t] = <<>>
           /\ token' = token /\ storage' = storage /\ location' = location
           /\ appState' = appState /\ issued' = issued
           /\ refreshInterval' = refreshInterval]_vars

\* The third call in a row finds the token of the first and does nothing.
C9_Witness ==
    \E t \in Tasks :
        /\ call[t].n = 3
        /\ call[t].op = "refreshAccessToken"
        /\ ~call[t].options.expiringRefresh
        /\ call[t].status = "resolved"
        /\ call[t].log = <<>>
        /\ IsSome(token) /\ token = call[t].entryToken
        /\ Get(token).accessToken = 1 /\ issued = 1
        /\ signed = NotSigned

\* C10: sign rejects exactly when no token is held; otherwise it returns what
\* the token's sign makes of the caller's request description, the request
\* with the token's credentials; it sends nothing and leaves token, store and
\* timer as they are.
C10_Sign ==
    [][\A t \in Tasks :
        (NewCall(t) /\ call'[t].op = "sign")
        => /\ (signed'.status = "rejected") <=> ~IsSome(token)
           /\ ~IsSome(token) => call'[t].status = "rejected"
           /\ IsSome(token)
              => /\ signed'.status = "resolved"
                 /\ call'[t].status = "resolved"
                 /\ signed'.request = call'[t].request
                 /\ signed'.authorization = Some(Get(token).accessToken)
           /\ call'[t].fetches = <<>> /\ call'[t].exchanges = <<>>
           /\ call'[t].log = <<>>
           /\ token' = token /\ storage' = storage
           /\ refreshInterval' = refreshInterval
           /\ location' = location /\ issued' = issued]_vars

\* A request signed with the held token's credentials.
C10_Witness ==
    \E t \in Tasks :
        /\ call[t].op = "sign"
        /\ call[t].status = "resolved"
        /\ call[t].request = [method |-> "POST", url |-> "/api"]
        /\ signed.request = call[t].request
        /\ IsSome(token) /\ signed.authorization = Some(Get(token).accessToken)

\* ------------------------------------------------------ automatic refresh
\* The interval startAutomaticTokenRefresh asks for with the interval option i.
IntervalOf(i) == IF IsSome(i) THEN Get(i) ELSE 30000

IsStart(c) == c.op = "startAutomaticTokenRefresh"

\* C11: a call of startAutomaticTokenRefresh runs an initial refreshAccessToken
\* (a code exchange is its first effect) if and only if no token was held when
\* it was made; over any sequence of calls, overlapping ones included, at most
\* one timer is ever installed, with the interval its installing call asked
\* for (30000 ms by default), and a call made while this.refreshInterval holds
\* a timer installs none.
C11_AtMostOneTimer ==
    /\ Len(timers) <= 1
    /\ IsSome(refreshInterval) <=> Len(timers) = 1
    /\ \A t \in Tasks :
          IsStart(call[t]) =>
            /\ ~IsSome(call[t].entryToken)
                 <=> (call[t].log # <<>> /\ call[t].log[1] = "getToken")
            /\ IsSome(call[t].entryToken)
                 => call[t].exchanges = <<>> /\ call[t].fetches = <<>>
            /\ (\E i \in DOMAIN call[t].log : call[t].log[i] = "setInterval")
                 => /\ call[t].status = "resolved"
                    /\ Last(call[t].log) = "setInterval"
                    /\ timers[1].interval = IntervalOf(call[t].interval)
                    /\ \A u \in Tasks \ {t} :
                          \A i \in DOMAIN call[u].log : call[u].log[i] # "setInterval"

\* Two overlapping calls, both made with no token held, have both returned
\* after their own code exchange, and one timer is installed.
C11_Witness ==
    /\ IsStart(call["app"]) /\ IsStart(call["app2"])
    /\ call["app"].status = "resolved" /\ call["app2"].status = "resolved"
    /\ ~IsSome(call["app"].entryToken) /\ ~IsSome(call["app2"].entryToken)
    /\ "getToken:ok" = call["app"].log[2] /\ "getToken:ok" = call["app2"].log[2]
    /\ Len(timers) = 1 /\ ~timers[1].cleared
    /\ timers[1].interval = 2 * AUTH_TOKEN_INTERVAL

IsTick(c) == c.op = "tick"

\* The timer callback started refreshAccessToken({expiringRefresh: true}): the
\* refresh request with the held refresh token is its first effect.
Refreshes(c) ==
    /\ Len(c.log) >= 2 /\ c.log[1] = "expiring" /\ c.log[2] = "fetch"
    /\ c.fetches[1] = RefreshBody(Get(c.entryToken).refreshToken)

\* Milliseconds to the expiry of the token held when the callback ran.
TimeLeft(c) == Get(c.entryToken).expires - c.at

\* C12, as stated: on a tick with a token held, the refresh is started if and
\* only if the token's time to expiry is at or below the refresh window.
C12_AsStated ==
    \A t \in Tasks :
        (IsTick(call[t]) /\ IsSome(call[t].entryToken))
        => (Refreshes(call[t])
              <=> TimeLeft(call[t]) <= WindowOf(call[t].options) * MsPerMinute)

\* C12, amended: on a tick with a token held, the refresh is started if and
\* only if the whole minutes left to expiry, rounded down, are at or below the
\* refresh window, that is if less than refreshWindow + 1 minutes are left;
\* nothing else is sent on a tick that does not start it.
C12_RefreshesWithinWholeMinutes ==
    \A t \in Tasks :
        (IsTick(call[t]) /\ IsSome(call[t].entryToken))
        => /\ Refreshes(call[t])
                <=> TimeLeft(call[t]) < (WindowOf(call[t].options) + 1) * MsPerMinute
           /\ ~Refreshes(call[t])
                => /\ call[t].log = <<"fresh">> /\ call[t].status = "resolved"
                   /\ call[t].fetches = <<>> /\ call[t].exchanges = <<>>

\* A tick of a timer with the default window found five and a half minutes
\* left and started the refresh.
C12_Witness ==
    \E t \in Tasks :
        /\ IsTick(call[t]) /\ IsSome(call[t].entryToken)
        /\ call[t].options.refreshWindow = None
        /\ 2 * TimeLeft(call[t]) = 11 * MsPerMinute
        /\ Refreshes(call[t])

\* C13: a tick that finds no token held fails in the expiry check; the error
\* is caught and logged in the callback, which returns normally; the timer
\* stays installed and is due again one interval later. No tick ever ends
\* rejected, whatever the refresh it started ran into.
C13_TickNeverThrows ==
    [][\A t \in Tasks :
        /\ IsTick(call'[t]) => call'[t].status # "rejected"
        /\ (NewCall(t) /\ IsTick(call'[t]) /\ ~IsSome(token))
           => /\ Events(t) = <<"typeerror", "warn">>
              /\ call'[t].status = "resolved"
              /\ refreshInterval' = refreshInterval
              /\ Len(timers') = Len(timers)
              /\ \A h \in DOMAIN timers :
                    /\ timers'[h].cleared = timers[h].cleared
                    /\ Due(h) => timers'[h].due = now + timers[h].interval]_vars

\* After a tick that failed for want of a token, a later tick of the same
\* timer found a token and started its refresh.
C13_Witness ==
    \E t \in Tasks :
        /\ IsTick(call[t])
        /\ call[t].previous # <<>> /\ call[t].previous[1] = "typeerror"
        /\ IsSome(call[t].entryToken)
        /\ Refreshes(call[t])

IsStop(c) == c.op = "stopAutomaticTokenRefresh"
IsLogout(c) == c.op = "logout"
AllCancelled(ts) == \A h \in DOMAIN ts : ts[h].cleared

\* C14: stopAutomaticTokenRefresh cancels the timer this.refreshInterval
\* holds, and makes no cancel call when none was ever installed; it leaves
\* the held token, the store and the location as they are; once the timer is
\* cancelled no callback of it is started any more.
C14_StopCancels ==
    [][/\ \A t \in Tasks :
            (NewCall(t) /\ IsStop(call'[t]))
            => /\ token' = token /\ storage' = storage /\ location' = location
               /\ refreshInterval' = refreshInterval
               /\ call'[t].status = "resolved"
               /\ IF IsSome(refreshInterval)
                  THEN /\ Events(t) = <<"clearInterval">>
                       /\ timers'[Get(refreshInterval)].cleared
                  ELSE /\ Events(t) = <<>>
                       /\ timers' = timers /\ timers = <<>>
       /\ (timers # <<>> /\ AllCancelled(timers)) => nticks' = nticks]_vars

\* The timer was cancelled before its first tick; its interval has elapsed
\* since, and no callback has run.
C14_Witness ==
    \E t \in Tasks :
        /\ IsStop(call[t]) /\ call[t].status = "resolved"
        /\ call[t].log = <<"clearInterval">>
        /\ Len(timers) = 1 /\ timers[1].cleared
        /\ timers[1].due <= now /\ nticks = 0

\* The URL of the identity provider's logout endpoint with the client id and
\* the configured post-logout redirect.
LogoutTarget ==
    [protocol |-> "https:", hostname |-> "idp", port |-> "", pathname |-> "/logout",
     search |-> << <<"client_id", Str("cid")>>,
                   <<"logout_uri", Str("https://app/bye")>> >>]

\* C15: logout first stops the timer (cancelling the installed one) and
\* touches nothing else before its suspension point; then it removes the
\* record from the store and navigates to the logout URI with client_id and
\* logout_uri, in this order; when it returns every timer is cancelled and
\* the store holds no record.
C15_LogoutOrder ==
    [][\A t \in Tasks :
        /\ (NewCall(t) /\ IsLogout(call'[t]))
           => /\ Events(t) = IF IsSome(refreshInterval)
                             THEN <<"clearInterval">> ELSE <<>>
              /\ AllCancelled(timers')
              /\ storage' = storage /\ location' = location
              /\ call'[t].status = "pending"
        /\ (~NewCall(t) /\ IsLogout(call[t]) /\ Events(t) # <<>>)
           => /\ Events(t) = <<"removeItem", "navigate">>
              /\ StoredNext = None
              /\ location' = LogoutTarget
              /\ AllCancelled(timers')
              /\ call'[t].status = "resolved"]_vars

\* A logout made with a timer installed and a record stored has returned.
C15_Witness ==
    \E t \in Tasks :
        /\ IsLogout(call[t]) /\ call[t].status = "resolved"
        /\ call[t].log = <<"clearInterval", "removeItem", "navigate">>
        /\ IsSome(call[t].entryStored)
        /\ Stored(Cur) = None
        /\ location = LogoutTarget
        /\ Len(timers) = 1 /\ timers[1].cleared

\* C16, as stated: once logout has returned no token is held in memory:
\* getAccessToken returns none and sign rejects.
C16_AsStated ==
    \A t \in Tasks :
        (IsLogout(call[t]) /\ call[t].status = "resolved")
        => /\ token = None
           /\ getAccessToken(token) = None
           /\ \A r \in SignRequests : sign(token, r).status = "rejected"

\* ------------------------------------------------------- persisted expiry
\* In the step the catch block of task t restores the token from the store.
Restores(t) ==
    \E i \in DOMAIN Events(t) :
        /\ Events(t)[i] = "getItem"
        /\ i < Len(Events(t)) /\ Events(t)[i + 1] = "createToken"

\* C17: a token is written to the store with its absolute expiry instant, the
\* one it has in memory; a token restored from the store has the expiry
\* instant of the record, whatever the clock says at the restore, and its
\* relative lifetime is carried along unchanged.
C17_ExpiryIsAbsolute ==
    [][\A t \in Tasks :
        /\ Occurs(t, "setItem")
           => /\ IsSome(StoredNext) /\ IsSome(token')
              /\ Get(StoredNext).expires = Get(token').expires
              /\ Get(StoredNext).expires = now + Get(StoredNext).expires_in * 1000
        /\ Restores(t)
           => /\ IsSome(token')
              /\ Get(token').expires = Get(Stored(Cur)).expires
              /\ Get(token').data.expires_in = Get(Stored(Cur)).expires_in]_vars

\* A record this controller wrote at instant 0 was restored one clock step
\* later: the token has the expiry of the record, not the later one its
\* lifetime would give counted from the restore.
C17_Witness ==
    \E t \in Tasks :
        /\ call[t].catches # <<>>
        /\ Last(call[t].catches).at > 0
        /\ Last(call[t].log) = "createToken"
        /\ IsSome(call[t].entryToken)
        /\ IsSome(token)
        /\ Get(token).accessToken = 1
        /\ Get(token).expires = Get(token).data.expires_in * 1000
        /\ Get(token).expires
              # Last(call[t].catches).at + Get(token).data.expires_in * 1000
        /\ Stored(Cur) = Some(StoredRecord(Get(token)))

\* ----------------------------------------------------------- construction
\* The last call of task t was the constructor.
Constructed(t) == call[t].op = "constructor"

\* The positions in the fixed order of the required parameters o lacks.
MissingIn(o) == { i \in DOMAIN required : o[required[i]] = None \/ o[required[i]] = Some("") }

\* C18: a constructor call with a required parameter missing throws an error
\* whose message names the first missing parameter in the fixed order, and
\* throws it before any OAuth client is created.
C18_NamesFirstMissing ==
    \A t \in Tasks :
        Constructed(t) /\ MissingIn(call[t].options) # {}
        => LET first == CHOOSE i \in MissingIn(call[t].options) :
                            \A j \in MissingIn(call[t].options) : i <= j
           IN /\ call[t].status = "rejected"
              /\ thrown = Some(<<"LOAuth ctor param", required[first], "is required">>)
              /\ \A i \in DOMAIN call[t].log : call[t].log[i] # "ClientOAuth2"

\* The constructor was called without authorizationUri, logoutUri and scopes
\* and named authorizationUri.
C18_Witness ==
    /\ Constructed("app")
    /\ MissingIn(call["app"].options) = {2, 5, 7}
    /\ thrown = Some(<<"LOAuth ctor param", "authorizationUri", "is required">>)
    /\ call["app"].log = <<>>

\* ------------------------------------------- the state given to the client
\* The whitelisted query parameters of a URL that have a value, in the order
\* of the whitelist; its path unless empty or the root; the fields its state
\* parameter decodes to (none when absent or not decodable).
QueryFields(loc) ==
    LET present == SelectSeq(LO_QUERY_STRING_PARAMS,
                       LAMBDA k : \E i \in DOMAIN loc.search :
                                      /\ loc.search[i][1] = k
                                      /\ \A j \in 1..(i - 1) : loc.search[j][1] # k
                                      /\ loc.search[i][2] # Str(""))
    IN [n \in DOMAIN present |->
           <<present[n], Get(SearchGet(loc.search, present[n])).str>>]
PathFields(loc) ==
    IF loc.pathname \in {"", "/"} THEN <<>> ELSE << <<"pathname", loc.pathname>> >>
StateFields(loc) ==
    LET q == SearchGet(loc.search, "state")
    IN IF IsSome(q) /\ Get(q).enc THEN Get(q).obj ELSE <<>>

\* The mapping a list of fields builds: a key stands where it first occurs
\* and has the value of its last occurrence.
Merged(fields) ==
    LET firsts == SelectSeq([i \in DOMAIN fields |-> i],
                      LAMBDA i : \A j \in 1..(i - 1) : fields[j][1] # fields[i][1])
    IN [n \in DOMAIN firsts |->
           LET k == fields[firsts[n]][1]
               last == CHOOSE j \in DOMAIN fields :
                           /\ fields[j][1] = k
                           /\ \A l \in DOMAIN fields : fields[l][1] = k => l <= j
           IN <<k, fields[last][2]>>]

\* What the client is given for a mapping: nothing when it is empty.
Encoded(mapping) == IF mapping = <<>> THEN None ELSE Some(B64(mapping))

\* C19 as stated: the state given to the client encodes the mapping built
\* from the whitelisted query parameters, the path and the caller's fields.
C19_AsStated ==
    \A t \in Tasks :
        Constructed(t) /\ call[t].status = "resolved"
        => client.state = Encoded(Merged(QueryFields(location) \o PathFields(location)
                                         \o ctorParams.appState))

\* C19: the state the constructor gives to the OAuth client encodes the
\* mapping built, in this order, from the whitelisted query parameters of the
\* URL that have a non-empty value, the path unless it is empty or "/", the
\* fields the state parameter of the URL decodes to, and the caller's appState
\* fields, a later source overriding the value an earlier one gave a key;
\* when the mapping is empty the client is given no state.
C19_StateFromUrlStateAndCaller ==
    \A t \in Tasks :
        Constructed(t) /\ call[t].status = "resolved"
        => client.state = Encoded(Merged(QueryFields(location) \o PathFields(location)
                                         \o StateFields(location)
                                         \o ctorParams.appState))

\* The controller was constructed on /deep?account=acme&state=..., the state
\* parameter holding a path and another account, by a caller that locks the
\* account: the client is given account, pathname and myField, with the
\* caller's account and the state parameter's path.
C19_Witness ==
    /\ Constructed("app") /\ call["app"].status = "resolved"
    /\ location.pathname = "/deep"
    /\ SearchGet(location.search, "account") = Some(Str("acme"))
    /\ StateFields(location) = << <<"pathname", "/old">>, <<"account", "other">> >>
    /\ ctorParams.appState = << <<"account", "locked">>, <<"myField", "myValue">> >>
    /\ client.state = Some(B64(<< <<"account", "locked">>, <<"pathname", "/old">>,
                                  <<"myField", "myValue">> >>))

\* ------------------------------------------------- the redirect round trip
\* The page was loaded on the way back from the identity provider, with the
\* state the constructor had encoded before the redirect.
CameBack(t) ==
    /\ Constructed(t) /\ call[t].status = "resolved"
    /\ IsSome(SearchGet(location.search, "code"))
    /\ StateFields(location) # <<>>

\* The key/value pairs of a mapping.
Pairs(mapping) == { mapping[i] : i \in DOMAIN mapping }

\* C20 as stated: back from the identity provider, the application state
\* decoded from the URL has the key/value pairs that were encoded in the state
\* parameter, none added, lost or changed.
C20_AsStated ==
    \A t \in Tasks :
        CameBack(t) => Pairs(appState) = Pairs(StateFields(location))

\* C21 as stated: when the page is loaded again after the redirect, the state
\* the constructor computes for the OAuth client is the state parameter the
\* URL carries, the one computed before the redirect, key order included.
C21_AsStated ==
    \A t \in Tasks :
        CameBack(t) => client.state = SearchGet(location.search, "state")

\* ------------------------------------------ a state that cannot be decoded
\* The constructor or the refreshAccessToken call of task t decodes, in this
\* step, the application state of a page whose state parameter is there but
\* cannot be decoded.
DecodesConstructing(t) ==
    /\ NewCall(t) /\ call'[t].op = "constructor"
    /\ MissingIn(call'[t].options) = {}
    /\ decodeThrows(location')
DecodesRefreshing(t) == Occurs(t, "replaceState") /\ decodeThrows(location)

\* C22 as stated: the error is logged and swallowed, neither the constructor
\* nor refreshAccessToken fails because of it, and the application state is
\* left empty.
C22_AsStated ==
    [][\A t \in Tasks :
        /\ DecodesConstructing(t)
           => /\ Occurs(t, "warn:state")
              /\ IsSome(thrown') => thrown' = Some(<<"InvalidCharacterError">>)
              /\ appState' = <<>>
        /\ DecodesRefreshing(t)
           => /\ Occurs(t, "warn:state")
              /\ call'[t].status = "resolved"
              /\ appState' = <<>>]_vars

\* C22: a state query parameter that cannot be decoded is never fatal: the
\* error is logged and swallowed, the constructor and refreshAccessToken do
\* not fail because of it, and the application state is what the whitelisted
\* query parameters and the path of the URL give (empty only when they give
\* nothing); the state passed to the OAuth client is built from it and the
\* caller's fields.
C22_UndecodableStateIsSkipped ==
    [][\A t \in Tasks :
        /\ DecodesConstructing(t)
           => /\ Occurs(t, "warn:state")
              /\ IsSome(thrown') => thrown' = Some(<<"InvalidCharacterError">>)
              /\ appState' = Merged(QueryFields(location') \o PathFields(location'))
              /\ thrown' = None
                 => client'.state =
                        Encoded(Merged(QueryFields(location') \o PathFields(location')
                                       \o call'[t].options.appState))
        /\ DecodesRefreshing(t)
           => /\ Occurs(t, "warn:state")
              /\ call'[t].status = "resolved"
              /\ appState' = Merged(QueryFields(location) \o PathFields(location))]_vars

\* The controller was constructed on /deep?account=acme&state=%%%, then
\* refreshAccessToken exchanged the code: the application state is the
\* account and the path, and the page was put back on /deep?account=acme.
C22_Witness ==
    /\ call["app"].op = "refreshAccessToken" /\ call["app"].status = "resolved"
    /\ call["app"].log = <<"getToken", "getToken:ok", "setItem", "warn:state",
                           "replaceState">>
    /\ appState = << <<"account", "acme">>, <<"pathname", "/deep">> >>
    /\ location.pathname = "/deep"
    /\ location.search = << <<"account", Str("acme")>> >>

\* ------------------------------------------------------ the hand-off cookie
\* document.cookie holds a hand-off cookie with valid fields.
ValidHandOff(c) ==
    /\ IsSome(c) /\ Get(c).name = AUTH_STORAGE_KEY
    /\ Get(c).parses /\ IsSome(Get(c).value)
\* document.cookie holds the cookie that deletes the hand-off cookie.
HandOffDeleted(c) ==
    /\ IsSome(c) /\ Get(c).name = AUTH_STORAGE_KEY
    /\ Get(c).value = None /\ Get(c).maxAge < 0
Count(events, event) == Len(SelectSeq(events, LAMBDA e : e = event))

LogoutQuery ==
    <<"client_id=", clientOptions.clientId,
      "&", "logout_uri=", clientOptions.logoutRedirectUri>>

\* C24 as stated: the text logout navigates to is the configured logout URI
\* followed by client_id and logout_uri, introduced with "&" when the
\* configured URI has a query string and with "?" otherwise; it has exactly
\* one "?".
C24_AsStated ==
    \A t \in Tasks :
        call[t].op = "logout" /\ call[t].status = "resolved"
        => LET configured == UriText(clientOptions.logoutUri)
           IN /\ call[t].href =
                    configured
                    \o (IF Count(configured, "?") > 0 THEN <<"&">> ELSE <<"?">>)
                    \o LogoutQuery
              /\ Count(call[t].href, "?") = 1

\* ------------------------------------------------- overlapping refreshes
\* Task t is awaiting the answer to a refresh request that carries refresh
\* token r.
InFlight(t, r) ==
    /\ At(t, "fetch")
    /\ call[t].fetches # <<>> /\ Last(call[t].fetches).refresh_token = r

\* In this step task t starts a refresh of the held token: a timer tick that
\* finds it expiring, or a direct call with expiringRefresh.
StartsRefresh(t) ==
    /\ NewCall(t) /\ IsSome(token)
    /\ \/ /\ IsTick(call'[t])
          /\ TimeLeft(call'[t]) < (WindowOf(call'[t].options) + 1) * MsPerMinute
       \/ /\ call'[t].op = "refreshAccessToken"
          /\ call'[t].options.expiringRefresh

\* C25: nothing serializes acquisition: a timer tick or a direct caller that
\* starts a refresh while another refreshAccessToken is awaiting the answer
\* to its refresh request sends its own request at once, with the refresh
\* token still held, and the earlier request stays in flight.
C25_RefreshesOverlap ==
    [][\A t \in Tasks, u \in Tasks :
        (t # u /\ StartsRefresh(t) /\ InFlight(u, Get(token).refreshToken))
        => /\ Occurs(t, "fetch")
           /\ stack'[t] # <<>> /\ stack'[t][Len(stack'[t])].pc = "fetch"
           /\ Last(call'[t].fetches).refresh_token = Get(token).refreshToken
           /\ stack'[u] = stack[u]]_vars

\* A direct call and a timer tick are both awaiting the answer to a refresh
\* request, and both requests carry the same refresh token.
C25_Witness ==
    /\ IsSome(token)
    /\ InFlight("app", Get(token).refreshToken)
    /\ InFlight("timer", Get(token).refreshToken)
    /\ call["app"].op = "refreshAccessToken" /\ IsTick(call["timer"])

\* ------------------------------------------------- passwordless sign-in
\* The key a field is stored under, and the instances that persist every
\* field of a session and of a token record.
KeyOf(f) == Get(api.clientOptions.storageKeys[f])
Persists(fields) ==
    /\ api.constructed /\ api.clientOptions.storage
    /\ \A f \in fields : ~Falsy(api.clientOptions.storageKeys[f])

\* The current call of the variant: its operation and how far it is.
CallIs(op, status) == api.call.op = op /\ api.call.status = status
Was(op, status) == api.constructed /\ CallIs(op, status)

\* The storage operations of the current call of one kind.
OpsOf(kind) == SelectSeq(api.call.ops, LAMBDA o : o[1] = kind)

\* In this step the application calls confirmPasswordlessAuth.
Confirms == api.call.n # api'.call.n /\ api'.call.op = "confirmPasswordlessAuth"

\* initiatePasswordlessAuth has succeeded and the provider returned a session.
InitiatedWithSession ==
    /\ Was("initiatePasswordlessAuth", "resolved")
    /\ IsSome(Prop(Get(api.call.result), "session"))

\* C26: with a store that persists every field: once initiatePasswordlessAuth
\* for username U has succeeded with session S, the store holds session S and
\* username U; a call of confirmPasswordlessAuth({code}) that follows sends
\* {clientId, code, session: S, username: U} and reads nothing from the
\* store; and when the provider answers with tokens, the access, identity and
\* refresh token are in the store.
C26_PasswordlessRoundTrip ==
    [][Persists(StorageFields) =>
        /\ InitiatedWithSession
           => /\ api.store[KeyOf("session")] = Prop(Get(api.call.result), "session")
              /\ api.store[KeyOf("username")] = Prop(api.call.input, "username")
        /\ (InitiatedWithSession /\ Confirms
              /\ DOMAIN api'.call.input = {"code"})
           => /\ api'.call.request =
                    Some([path |-> "/passwordless-auth/verify",
                          body |-> [clientId |-> api.clientOptions.clientId,
                                    code |-> api'.call.input.code,
                                    session |-> Prop(Get(api.call.result), "session"),
                                    username |-> Prop(api.call.input, "username")]])
              /\ api'.call.ops = <<>>
        /\ (CallIs("confirmPasswordlessAuth", "pending")
              /\ api'.call.status = "resolved")
           => \A f \in {"accessToken", "idToken", "refreshToken"} :
                 /\ IsSome(Get(api'.call.result)[f])
                 /\ api'.store[KeyOf(f)] = Get(api'.call.result)[f]]_vars

\* The round trip of the example: initiated for a@b.com with session s1,
\* confirmed with the code alone, the three tokens written.
C26_Witness ==
    /\ Persists(StorageFields)
    /\ CallIs("confirmPasswordlessAuth", "resolved")
    /\ api.call.input = [code |-> Some("123")]
    /\ api.call.session0 = Some([session |-> Some("s1"), username |-> Some("a@b.com")])
    /\ Get(api.call.request).body =
          [clientId |-> "cid", code |-> Some("123"),
           session |-> Some("s1"), username |-> Some("a@b.com")]
    /\ api.call.ops = << <<"setItem", "lo-app-tools-api-auth.accessToken", "a1">>,
                         <<"setItem", "lo-app-tools-api-auth.idToken", "i1">>,
                         <<"setItem", "lo-app-tools-api-auth.refreshToken", "r1">> >>
    /\ api.store["lo-app-tools-api-auth.session"] = Some("s1")

\* ------------------------------------------------------------ backfilling
\* C27 as stated: a session or username the caller passes to
\* confirmPasswordlessAuth is sent unchanged, and when both are passed the
\* store is not read.
C27_AsStated ==
    [][Confirms =>
        /\ \A f \in {"session", "username"} :
              ~Falsy(Prop(api'.call.input, f))
              => Get(api'.call.request).body[f] = api'.call.input[f]
        /\ (\A f \in {"session", "username"} : ~Falsy(Prop(api'.call.input, f)))
           => api'.call.ops = <<>>]_vars

\* ------------------------------------------------ the end of a session
\* C28 as stated: after a successful confirmPasswordlessAuth the session
\* handle in memory is gone and neither the session nor the username is in
\* the store.
C28_AsStated ==
    Was("confirmPasswordlessAuth", "resolved")
    => /\ api.session = None
       /\ \A f \in {"session", "username"} :
             (api.clientOptions.storage /\ ~Falsy(api.clientOptions.storageKeys[f]))
             => api.store[KeyOf(f)] = None

\* ------------------------------------------------------ per-field opt-out
\* The fields the caller gave an undefined key, and the key the caller chose
\* for each of the others (its own, or else the default one).
OptedOut(f) ==
    f \in DOMAIN api.config.storageKeys /\ api.config.storageKeys[f] = None
OwnKey(f) ==
    IF f \in DOMAIN api.config.storageKeys
    THEN Get(api.config.storageKeys[f]) ELSE Get(DEFAULT_STORAGE_KEYS[f])
Kept(fields) == {f \in fields : ~OptedOut(f)}

\* The current call issued this storage operation.
Issued(o) == \E i \in 1..Len(api.call.ops) : api.call.ops[i] = o

\* The token record the current call has to persist.
TokensOf ==
    IF api.call.op = "setTokens" THEN api.call.input
    ELSE IF api.call.op = "redeemCustomAppCode"
    THEN [accessToken |-> Get(api.call.result).accessToken,
          idToken |-> Get(api.call.result).identityToken,
          refreshToken |-> Get(api.call.result).refreshToken]
    ELSE Get(api.call.result)

\* C29: no getItem, setItem or removeItem is issued under the key of a field
\* the caller opted out of, and none at all without a store; with a store,
\* every other field is written, read and removed under its own key: the
\* tokens by the operations that acquire them, the session and username by
\* initiatePasswordlessAuth, all five removed by logout, the session and
\* username read by a confirmPasswordlessAuth that finds no handle in
\* memory, the access token read by getAccessToken.
C29_OptOut ==
    api.constructed =>
      /\ \A f \in StorageFields :
            OptedOut(f) =>
               \A i \in 1..Len(api.call.ops) :
                  api.call.ops[i][2] # Get(DEFAULT_STORAGE_KEYS[f])
      /\ ~api.config.storage => api.call.ops = <<>>
      /\ api.config.storage =>
            /\ (api.call.status = "resolved"
                  /\ api.call.op \in {"setTokens", "initiatePasswordAuth",
                                      "confirmPasswordlessAuth", "redeemCustomAppCode"})
               => \A f \in Kept({"accessToken", "idToken", "refreshToken"}) :
                     Issued(<<"setItem", OwnKey(f), Get(TokensOf[f])>>)
            /\ CallIs("initiatePasswordlessAuth", "resolved")
               => \A f \in Kept({"session", "username"}) :
                     IsSome(Prop(Get(api.session), f))
                     => Issued(<<"setItem", OwnKey(f), Get(Get(api.session)[f])>>)
            /\ CallIs("logout", "resolved")
               => \A f \in Kept(StorageFields) : Issued(<<"removeItem", OwnKey(f)>>)
            /\ (api.call.op = "confirmPasswordlessAuth" /\ api.call.session0 = None
                  /\ DOMAIN api.call.input # {"code", "session", "username"})
               => \A f \in Kept({"session", "username"}) : Issued(<<"getItem", OwnKey(f)>>)
            /\ (api.call.op = "getAccessToken" /\ ~OptedOut("accessToken"))
               => Issued(<<"getItem", OwnKey("accessToken")>>)

\* The instance was told not to persist the session; initiatePasswordlessAuth
\* got a session from the provider and wrote the username alone.
C29_Witness ==
    /\ api.constructed /\ api.config.storage
    /\ api.config.storageKeys = [session |-> None]
    /\ CallIs("initiatePasswordlessAuth", "resolved")
    /\ api.call.result = Some([session |-> Some("s1")])
    /\ api.call.ops = << <<"setItem", "lo-app-tools-api-auth.username", "a@b.com">> >>
    /\ api.session = Some([session |-> Some("s1"), username |-> Some("a@b.com")])

\* ------------------------------------------------- a request that fails
\* In this step the provider rejects the request of a sign-in operation.
SignInOps == {"initiatePasswordlessAuth", "initiatePasswordAuth", "confirmPasswordlessAuth"}
SignInFails ==
    /\ api.call.op \in SignInOps
    /\ api.call.status = "pending" /\ api'.call.status = "rejected"

\* The call rejected with the provider's error and wrote nothing.
FailedCleanly ==
    /\ api'.call.result = api'.call.answer
    /\ api'.store = api.call.store0
    /\ OpsOf("setItem") = <<>> /\ OpsOf("removeItem") = <<>>
    /\ api'.call.ops = api.call.ops

\* What _getFromStorage makes of the store the call found: the values, not
\* empty, under the configured session and username keys.
StoredSession ==
    LET kept == {f \in {"session", "username"} :
                    /\ ~Falsy(api.clientOptions.storageKeys[f])
                    /\ ~Falsy(api.call.store0[KeyOf(f)])}
    IN [f \in kept |-> api.call.store0[KeyOf(f)]]

\* The call is a confirmPasswordlessAuth that had to look for the session or
\* the username, on an instance with a store and no handle in memory.
LooksInStore ==
    /\ api.call.op = "confirmPasswordlessAuth"
    /\ Falsy(Prop(api.call.input, "session")) \/ Falsy(Prop(api.call.input, "username"))
    /\ api.clientOptions.storage
    /\ api.call.session0 = None

\* C30 as stated: when the provider rejects the request of
\* initiatePasswordlessAuth, initiatePasswordAuth or confirmPasswordlessAuth,
\* the call rejects with the provider's error, nothing was written to the
\* store, and the session handle in memory is the one the call found.
C30_AsStated ==
    [][SignInFails => FailedCleanly /\ api'.session = api.call.session0]_vars

\* C30: when the provider rejects the request of initiatePasswordlessAuth,
\* initiatePasswordAuth or confirmPasswordlessAuth, the call rejects with the
\* provider's error, nothing was written to the store, and the session handle
\* in memory is the one the call found, except after a
\* confirmPasswordlessAuth that had to look for the session or the username
\* with a store and no handle in memory: the handle is then what the store
\* holds under the session and username keys.
C30_FailureLeavesNoTrace ==
    [][SignInFails =>
        /\ FailedCleanly
        /\ api'.session = IF LooksInStore THEN Some(StoredSession)
                          ELSE api.call.session0]_vars

\* A confirmPasswordlessAuth({code}) on a fresh instance read the session and
\* username an earlier page had stored; the provider rejected the request:
\* the call rejected with 'test error', the store is as it was and the
\* handle holds what was read.
C30_Witness ==
    /\ Was("confirmPasswordlessAuth", "rejected")
    /\ api.call.input = [code |-> Some("123")]
    /\ api.call.session0 = None
    /\ api.call.result = Some("test error")
    /\ api.call.ops = << <<"getItem", "lo-app-tools-api-auth.session">>,
                         <<"getItem", "lo-app-tools-api-auth.username">> >>
    /\ api.session = Some([session |-> Some("s0"), username |-> Some("u0")])
    /\ api.store = api.call.store0

\* ------------------------------------------------ logout of the variant
\* C31: a logout called while no other operation is in progress resolves,
\* sends no request and leaves no session handle in memory; it issues a
\* removeItem for every session and token field that has a key, and when it
\* has returned none of these keys holds a value. Without a store, or for a
\* field that was opted out, it issues nothing and resolves all the same.
C31_LogoutClears ==
    [][(api.call.n # api'.call.n /\ api'.call.op = "logout") =>
        /\ api'.call.status = "resolved"
        /\ api'.call.request = None
        /\ api'.session = None
        /\ \A f \in Kept(StorageFields) :
              api.config.storage
              => /\ \E i \in 1..Len(api'.call.ops) :
                       api'.call.ops[i] = <<"removeItem", OwnKey(f)>>
                 /\ api'.store[OwnKey(f)] = None
        /\ \A i \in 1..Len(api'.call.ops) :
              /\ api'.call.ops[i][1] = "removeItem"
              /\ \E f \in Kept(StorageFields) : api'.call.ops[i][2] = OwnKey(f)
        /\ ~api.config.storage => api'.call.ops = <<>> /\ api'.store = api.store]_vars

\* A logout after a passwordless sign-in: the handle was in memory and the
\* store held the session, the username and the three tokens; all five are
\* removed.
C31_Witness ==
    /\ Was("logout", "resolved")
    /\ api.call.session0 = Some([session |-> Some("s1"), username |-> Some("a@b.com")])
    /\ \A f \in StorageFields : IsSome(api.call.store0[Get(DEFAULT_STORAGE_KEYS[f])])
    /\ api.call.ops = << <<"removeItem", "lo-app-tools-api-auth.session">>,
                         <<"removeItem", "lo-app-tools-api-auth.accessToken">>,
                         <<"removeItem", "lo-app-tools-api-auth.username">>,
                         <<"removeItem", "lo-app-tools-api-auth.idToken">>,
                         <<"removeItem", "lo-app-tools-api-auth.refreshToken">> >>
    /\ api.session = None
    /\ \A k \in ApiKeys : api.store[k] = None

\* ------------------------------------------------ reading the access token
\* The step is a new call of the operation, or the answer that resolves it.
ApiCalls(op) == api.call.n # api'.call.n /\ api'.call.op = op
ApiResolves(op) ==
    /\ api.call.op = op /\ api.call.status = "pending"
    /\ api'.call.status = "resolved"

\* The access token is persisted by this instance.
AccessTokenKept == api.config.storage /\ ~OptedOut("accessToken")

\* C32: getAccessToken returns what the store holds under the access-token
\* key, and that is the access token of the latest operation that acquired
\* tokens: each successful initiatePasswordAuth, confirmPasswordlessAuth,
\* redeemCustomAppCode and setTokens puts its access token there, logout
\* empties it, and no other step changes it. Without a store, or with the
\* access-token key opted out, getAccessToken returns undefined and reads
\* nothing.
C32_AccessTokenPassthrough ==
    [][api.constructed =>
        /\ ApiCalls("getAccessToken")
           => IF AccessTokenKept
              THEN /\ api'.call.status \in {"resolved", "returned"}
                   /\ api'.call.result = Some(api.store[OwnKey("accessToken")])
                   /\ api'.call.ops = << <<"getItem", OwnKey("accessToken")>> >>
              ELSE /\ api'.call.status = "returned"
                   /\ api'.call.result = None
                   /\ api'.call.ops = <<>>
        /\ AccessTokenKept
           => api'.store[OwnKey("accessToken")] =
                 IF \/ ApiResolves("initiatePasswordAuth")
                    \/ ApiResolves("confirmPasswordlessAuth")
                    \/ ApiResolves("redeemCustomAppCode")
                 THEN Get(api'.call.answer).accessToken
                 ELSE IF ApiCalls("setTokens") THEN api'.call.input.accessToken
                 ELSE IF ApiCalls("logout") THEN None
                 ELSE api.store[OwnKey("accessToken")]]_vars

\* The third call is a getAccessToken that follows a redeemCustomAppCode: it
\* returns the access token that operation stored.
C32_Witness ==
    /\ Was("getAccessToken", "resolved")
    /\ api.call.n = 3
    /\ api.call.result = Some(Some("a3"))
    /\ api.call.store0["lo-app-tools-api-auth.idToken"] = Some("i3")
    /\ api.call.store0["lo-app-tools-api-auth.session"] = Some("s0")

\* ------------------------------------------------------ storing the tokens
\* The writes of a token record: one setItem for each token field that is
\* persisted, the access token first, then the identity token, then the
\* refresh token, each under its own key with its own value.
TokenWrites(tokens) ==
    LET kept == SelectSeq(TOKEN_KEYS, LAMBDA f : ~OptedOut(f))
    IN [i \in 1..Len(kept) |-> <<"setItem", OwnKey(kept[i]), Get(tokens[kept[i]])>>]

\* C33: with a store, each successful initiatePasswordAuth,
\* confirmPasswordlessAuth, redeemCustomAppCode and setTokens writes the
\* tokens it acquired with one setItem per persisted field, in the order
\* access token, identity token, refresh token, each under the key of its
\* field and with the field's value alone; what redeemCustomAppCode writes
\* under the idToken key is the identityToken of the provider's answer.
C33_TokensStoredFieldByField ==
    [][(api.constructed /\ api.config.storage) =>
        /\ \A op \in {"initiatePasswordAuth", "confirmPasswordlessAuth"} :
              ApiResolves(op)
              => api'.call.ops = api.call.ops \o TokenWrites(Get(api'.call.answer))
        /\ ApiResolves("redeemCustomAppCode")
              => api'.call.ops = api.call.ops \o
                    TokenWrites([accessToken  |-> Get(api'.call.answer).accessToken,
                                 idToken      |-> Get(api'.call.answer).identityToken,
                                 refreshToken |-> Get(api'.call.answer).refreshToken])
        /\ ApiCalls("setTokens")
              => /\ api'.call.status = "resolved"
                 /\ api'.call.ops = TokenWrites(api'.call.input)]_vars

\* redeemCustomAppCode has written the three tokens of the answer, the
\* identityToken under the idToken key.
C33_Witness ==
    /\ Was("redeemCustomAppCode", "resolved")
    /\ api.call.ops = << <<"setItem", "lo-app-tools-api-auth.accessToken", "a3">>,
                         <<"setItem", "lo-app-tools-api-auth.idToken", "i3">>,
                         <<"setItem", "lo-app-tools-api-auth.refreshToken", "r3">> >>
    /\ api.store["lo-app-tools-api-auth.idToken"] = Some("i3")

\* ------------------------------------------------- the two kinds of store
\* The instance with the other kind of store: one whose operations return
\* promises instead of values, or values instead of promises.
OtherStore(A) == [A EXCEPT !.clientOptions.promises = ~@]

\* C34 as stated, for the one operation that does not await the store: a
\* call of getAccessToken sends, returns and leaves in the store the same
\* with a store that returns values as with one that returns promises.
C34_AsStated ==
    [][(ApiCalls("getAccessToken") /\ api.clientOptions.storage) =>
        LET other == APIBasedAuth_getAccessToken(OtherStore(api))
        IN /\ api'.call.request = other.call.request
           /\ api'.call.status = other.call.status
           /\ api'.call.result = other.call.result
           /\ api'.store = other.store]_vars

\* ------------------------------------------------- restarting the timer
\* C35 as stated: whenever the application's last call is a
\* startAutomaticTokenRefresh that has completed (no stop or logout has
\* followed it), a timer is active.
C35_AsStated ==
    (call["app"].op = "startAutomaticTokenRefresh" /\ call["app"].status = "resolved")
    => \E h \in DOMAIN timers : ~timers[h].cleared

\* --------------------------------------------- answers that follow logout
\* C36 as stated: while the application's last call is a logout that has
\* returned (it has started no new acquisition since), the store holds no
\* token record, whatever answers arrive for requests made before.
C36_AsStated ==
    (IsLogout(call["app"]) /\ call["app"].status = "resolved")
    => Stored(Cur) = None

\* ------------------------------------------------ the state at a redirect
\* C37 as stated: whenever refreshAccessToken sets the location to the
\* authorization URI, no token is held in memory and the store holds no
\* record.
C37_AsStated ==
    [][\A t \in Tasks :
        Occurs(t, "redirect") => token' = None /\ StoredNext = None]_vars

\* ------------------------------------------------- the refresh token kept
\* In this step task t reads the body of an OK answer to its refresh request
\* while a token is held.
ReadsRefreshed(t) ==
    /\ Events(t) # <<>> /\ Events(t)[1] = "json:ok"
    /\ IsSome(token)

\* C38: when the body of an OK answer to a refresh request is read, the
\* refresh token of the new token, in memory and in the store, is the one of
\* the answer if the answer has one, and else the one of the token that is
\* replaced; a token with a refresh token is never replaced by one without.
C38_RefreshTokenKept ==
    [][\A t \in Tasks :
        ReadsRefreshed(t) =>
           LET response == Last(call'[t].responses)
           IN /\ IsSome(token') /\ IsSome(StoredNext)
              /\ Get(token').accessToken = response.access_token
              /\ Get(token').refreshToken =
                    IF IsSome(response.refresh_token) THEN response.refresh_token
                    ELSE Get(token).refreshToken
              /\ Get(StoredNext).refresh_token = Get(token').refreshToken
              /\ IsSome(Get(token).refreshToken) => IsSome(Get(token').refreshToken)]_vars

\* A refresh was answered without a refresh token: the new token has the new
\* access token and the refresh token of the token the call found.
C38_Witness ==
    \E t \in Tasks :
        /\ call[t].status = "resolved"
        /\ call[t].log = <<"fetch", "fetch:ok", "json:ok", "createToken", "setItem">>
        /\ Last(call[t].responses).refresh_token = None
        /\ IsSome(token) /\ IsSome(call[t].entryToken)
        /\ Get(token).accessToken # Get(call[t].entryToken).accessToken
        /\ IsSome(Get(token).refreshToken)
        /\ Get(token).refreshToken = Get(call[t].entryToken).refreshToken

\* ------------------------------------------------------------ termination
\* Call c is a call of refreshAccessToken.
IsRefresh(c) == c.op = "refreshAccessToken"

\* The requests a call has sent: code exchanges and refresh requests.
Requests(c) == Len(c.exchanges) + Len(c.fetches)

\* Task t waits for the answer to a request, or for the body of an answer.
Awaits(t) == At(t, "getToken") \/ At(t, "fetch") \/ At(t, "json")

\* C39: a call of refreshAccessToken that no other call interleaves with
\* never has more than three activations of refreshAccessToken on the stack,
\* whatever the store held and however the exchange and the refresh request
\* end. It sends at most three requests, one for each activation, and while
\* it has not settled it waits for the answer to the last one, so that it
\* settles when its requests are answered; when it has settled, a token is
\* held or the page was sent to the authorization URI.
C39_BoundedAndSettles ==
    \A t \in Tasks :
        IsRefresh(call[t]) =>
            /\ Len(stack[t]) <= 3 /\ call[t].depth <= 3
            /\ Requests(call[t]) <= call[t].depth
            /\ call[t].status = "pending" =>
                   /\ stack[t] # <<>> /\ Awaits(t)
                   /\ Requests(call[t]) = Len(stack[t])
            /\ call[t].status # "pending" =>
                   /\ stack[t] = <<>>
                   /\ call[t].status = "resolved"
                   /\ \/ IsSome(token)
                      \/ Count(call[t].log, "redirect") > 0

\* A call that nested three deep has settled: the exchange failed, the stored
\* token was expiring, its refresh was refused, and the second exchange
\* failed too.
C39_Witness ==
    \E t \in Tasks :
        /\ IsRefresh(call[t]) /\ call[t].status = "resolved"
        /\ call[t].depth = 3 /\ stack[t] = <<>>
        /\ Count(call[t].log, "getToken:rejected") = 2
        /\ Count(call[t].log, "redirect") = 1
        /\ ~IsSome(token)

\* ------------------------------------------------- memory and store agree
\* C40: between the steps of the calls, pending or not and interleaved or
\* not, a token held in memory and a record in the store describe the same
\* token: same access token, same refresh token, same absolute expiry. This
\* is stated for every record in the store, the ones this controller wrote
\* included.
C40_MemoryMatchesStore ==
    (IsSome(token) /\ IsSome(Stored(Cur))) => Describes(Get(Stored(Cur)), Get(token))

\* Two acquisitions overlapped: both started without a token and each
\* exchanged the code and stored its token. Memory and store hold the token
\* of the one that was answered last.
C40_Witness ==
    /\ \A t \in {"app", "app2"} :
          /\ call[t].status = "resolved" /\ ~IsSome(call[t].entryToken)
          /\ Count(call[t].log, "setItem") = 1
          /\ Len(call[t].exchanges) = 1
    /\ IsSome(token) /\ IsSome(Stored(Cur))
    /\ Get(token).accessToken = 2
    /\ Describes(Get(Stored(Cur)), Get(token))
====
